---- MODULE Spec2Model ----
(***************************************************************************)
(* A model of the gemini_caption batch captioning pipeline:                *)
(*   - DanbooruPicDoc / DanbooruPics      (metadata gateway, URL synthesis) *)
(*   - DanbooruGeminiCaptions             (shard-routed caption store)      *)
(*   - GeminiApiClient._call_gemini_sync  (retry loop of the model client)  *)
(*   - BatchProcessor                     (worker, semaphore, orchestrator) *)
(* Strings are TLA+ strings, a MongoDB document is a function from the     *)
(* names of the fields it has to their values.                             *)
(***************************************************************************)
EXTENDS Integers, Sequences, FiniteSets, TLC

(***************************************************************************)
(* Program constants and the bounds of the model.                          *)
(***************************************************************************)
ShardSize == 100000
batch_size == 10000
retry_attempts == 3
retry_delay == 5

\* Number of consecutive ids of the id universe, which straddles the first
\* shard boundary: ShardSize - 1, ShardSize, ...
NumIds == 2
\* Largest size of the semaphore (the max_concurrency argument of
\* BatchProcessor).
MaxConcurrency == 2
\* Number of entry-point invocations in one behaviour.
MaxRuns == 2

Ids == (ShardSize - 1) .. (ShardSize + NumIds - 2)

None == "<None>"

Min(a, b) == IF a < b THEN a ELSE b
Max(a, b) == IF a > b THEN a ELSE b

(***************************************************************************)
(* Python string helpers.                                                  *)
(***************************************************************************)
\* sub in s
Contains(s, sub) ==
    \E i \in 1 .. (Len(s) - Len(sub) + 1) : SubSeq(s, i, i + Len(sub) - 1) = sub

\* s.endswith(suffix)
EndsWith(s, suffix) ==
    /\ Len(s) >= Len(suffix)
    /\ SubSeq(s, Len(s) - Len(suffix) + 1, Len(s)) = suffix

\* s[a:b] for 0 <= a <= b
Slice(s, a, b) == SubSeq(s, a + 1, Min(b, Len(s)))

UpperChars == "ABCDEFGHIJKLMNOPQRSTUVWXYZ"
LowerChars == "abcdefghijklmnopqrstuvwxyz"

UpperSet == {SubSeq(UpperChars, k, k) : k \in 1 .. Len(UpperChars)}

LowerOf ==
    [c \in UpperSet |->
        LET k == CHOOSE j \in 1 .. Len(UpperChars) : SubSeq(UpperChars, j, j) = c
        IN  SubSeq(LowerChars, k, k)]

LowerChar(c) == IF c \in UpperSet THEN LowerOf[c] ELSE c

RECURSIVE Lower(_)
\* s.lower(), one half of the string after the other
Lower(s) ==
    IF Len(s) <= 1 THEN LowerChar(s)
    ELSE CHOOSE lowered \in
             {Lower(SubSeq(t, 1, Len(t) \div 2))
                  \o Lower(SubSeq(t, (Len(t) \div 2) + 1, Len(t))) : t \in {s}} : TRUE

Digits == "0123456789"

RECURSIVE str(_)
\* str(n) of a non-negative integer
str(n) ==
    IF n < 10 THEN SubSeq(Digits, n + 1, n + 1)
    ELSE str(n \div 10) \o SubSeq(Digits, (n % 10) + 1, (n % 10) + 1)

\* dict.get(key, default)
Get(d, key, default) == IF key \in DOMAIN d THEN d[key] ELSE default

\* {**old, **new}: the fields of new over those of old
Merge(old, new) ==
    [f \in (DOMAIN old) \cup (DOMAIN new) |->
        IF f \in DOMAIN new THEN new[f] ELSE old[f]]

(***************************************************************************)
(* DanbooruPicDoc: the model validator and URL synthesis.                  *)
(* A stored metadata record is [md5, file_ext]; either may be None.        *)
(***************************************************************************)
CdnPrefix == "https://cdn.donmai.us/original/"

\* Faulty variant of the URL synthesis: no directories from the md5
build_url_flat(md5, file_ext) ==
    IF md5 = None \/ file_ext = None THEN None
    ELSE IF md5 = "" \/ file_ext = "" THEN None
    ELSE CdnPrefix \o md5 \o "." \o file_ext

\* DanbooruPicDoc.build_url, on the fields as the validator has normalised them
build_url(md5, file_ext) ==
    IF md5 = None \/ file_ext = None THEN None
    ELSE IF md5 = "" \/ file_ext = "" THEN None
    ELSE CdnPrefix \o Slice(md5, 0, 2) \o "/" \o Slice(md5, 2, 4) \o "/"
            \o md5 \o "." \o file_ext

\* DanbooruPicDoc(**doc_dict): the fields after set_status_based_on_md5, or
\* raised = TRUE when the validator raises ('gif' in None is a TypeError).
\* status0 and url0 are the field defaults (404 and "").
DanbooruPicDoc(rec) ==
    LET md5      == IF rec.md5 = None THEN "" ELSE rec.md5
        file_ext == IF rec.file_ext = None THEN "" ELSE rec.file_ext
        status1  == IF md5 # "" THEN 200
                    ELSE IF md5 = "" \/ file_ext = "gif" THEN 405
                    ELSE 404
        url1     == IF md5 # "" THEN build_url(md5, file_ext) ELSE ""
    IN  IF url1 = None
        THEN [raised |-> TRUE, status |-> status1, url |-> None]
        ELSE IF Contains(url1, "gif")
        THEN [raised |-> FALSE, status |-> 405, url |-> ""]
        ELSE [raised |-> FALSE, status |-> status1, url |-> url1]

\* DanbooruPicDoc.from_id: every field but _id at its default
from_id == DanbooruPicDoc([md5 |-> "", file_ext |-> ""])


(***************************************************************************)
(* DanbooruPics: the metadata gateway.  pics is the "pics" collection, a   *)
(* function from the ids that have a record to [md5, file_ext].  fault is  *)
(* what the storage does to the read: "none", or "find_one" when the query *)
(* raises.                                                                 *)
(***************************************************************************)
StoreFaults == {"none", "find_one"}

\* DanbooruPics.pics_db_cache: ids holds the cached ids of Ids (the cached
\* document of an id is DanbooruPicDoc of its record), rest the keys of the
\* shards whose ids outside Ids are cached
EmptyCache == [ids |-> {}, rest |-> {}]

\* DanbooruPics.get_pic_data_by_id: the cached document, or the document read
\* from the collection
get_pic_data_by_id(pics, cache, id, fault) ==
    IF id \in cache.ids THEN DanbooruPicDoc(pics[id])
    ELSE IF fault = "find_one" THEN from_id
    ELSE IF id \in DOMAIN pics
         THEN LET doc == DanbooruPicDoc(pics[id])
              IN  IF doc.raised THEN from_id ELSE doc
         ELSE from_id

\* The ids of post_ids get_pic_data_by_id leaves in the cache
Cached(pics, cache, post_ids, faultOf) ==
    cache.ids \cup {id \in post_ids \cap DOMAIN pics :
                       faultOf[id] = "none" /\ ~DanbooruPicDoc(pics[id]).raised}

\* DanbooruPics.get_url_by_id: (url, status)
get_url_by_id(pics, cache, post_id, fault) ==
    LET doc == get_pic_data_by_id(pics, cache, post_id, fault)
    IN  [url |-> doc.url, status |-> doc.status]

\* DanbooruPics.check_url_by_id_batch: {id: {"url", "status"}}
check_url_by_id_batch(pics, cache, post_ids, faultOf) ==
    [post_id \in post_ids |->
        LET doc == get_pic_data_by_id(pics, cache, post_id, faultOf[post_id])
        IN  [url |-> doc.url, status |-> doc.status]]

(***************************************************************************)
(* DanbooruGeminiCaptions: the caption store.  db maps a collection name   *)
(* to a collection, a function from the _id of each stored document to the *)
(* document.                                                               *)
(***************************************************************************)
\* Faulty variant of the routing: shards ten times as wide
get_collection_name_wide(id_value) == str(id_value \div (10 * ShardSize))

\* DanbooruGeminiCaptions._get_collection_name, for an integer id
get_collection_name(id_value) == str(id_value \div ShardSize)

\* collection.find_one({"_id": id}): the set of the documents found
find_one(db, collection_name, id) ==
    IF collection_name \in DOMAIN db /\ id \in DOMAIN db[collection_name]
    THEN {db[collection_name][id]}
    ELSE {}

\* The $or filter of get_processed_ids
ProcessedStatusCodes == {200, 403, 404, 999, 998}

\* Faulty variant of the filter: 405 among its status codes
ProcessedFilterWith405(doc) ==
    \/ "prompt" \in DOMAIN doc
    \/ ("success" \in DOMAIN doc /\ doc["success"] = TRUE)
    \/ ("status_code" \in DOMAIN doc
            /\ doc["status_code"] \in ProcessedStatusCodes \cup {405})

ProcessedFilter(doc) ==
    \/ "prompt" \in DOMAIN doc
    \/ ("success" \in DOMAIN doc /\ doc["success"] = TRUE)
    \/ ("status_code" \in DOMAIN doc /\ doc["status_code"] \in ProcessedStatusCodes)

\* Faulty variant of the scan: the upper bound of the range is included
get_processed_ids_closed(db, start_id, end_id) ==
    UNION { LET collection_name == str(coll_key)
                coll_start == Max(start_id, coll_key * ShardSize)
                coll_end   == Min(end_id, (coll_key + 1) * ShardSize)
            IN  IF collection_name \in DOMAIN db
                THEN { id \in DOMAIN db[collection_name] :
                          /\ id >= coll_start
                          /\ id <= coll_end
                          /\ ProcessedFilter(db[collection_name][id]) }
                ELSE {}
          : coll_key \in (start_id \div ShardSize) .. (end_id \div ShardSize) }

\* Faulty variant of the scan: nothing is found processed
get_processed_ids_nothing(db, start_id, end_id) == {}

\* DanbooruGeminiCaptions.get_processed_ids
get_processed_ids(db, start_id, end_id) ==
    UNION { LET collection_name == str(coll_key)
                coll_start == Max(start_id, coll_key * ShardSize)
                coll_end   == Min(end_id, (coll_key + 1) * ShardSize)
            IN  IF collection_name \in DOMAIN db
                THEN { id \in DOMAIN db[collection_name] :
                          /\ id >= coll_start
                          /\ id < coll_end
                          /\ ProcessedFilter(db[collection_name][id]) }
                ELSE {}
          : coll_key \in (start_id \div ShardSize) .. (end_id \div ShardSize) }

\* Faulty variant of the point read: the stored document whatever its success
check_existing_result_any(db, dan_id) ==
    find_one(db, get_collection_name(dan_id), dan_id)

\* DanbooruGeminiCaptions.check_existing_result: the set holding the stored
\* document when it has success = true, the empty set for None
check_existing_result(db, dan_id) ==
    { result \in find_one(db, get_collection_name(dan_id), dan_id) :
        Get(result, "success", FALSE) = TRUE }

\* What save_caption_result makes of the result dict it is handed (the
\* caller's dict is changed in place): created_at if absent, and _id
Stamp(result, dan_id, now) ==
    LET stamped == IF "created_at" \in DOMAIN result THEN result
                   ELSE Merge(result, "created_at" :> now)
    IN  Merge(stamped, "_id" :> dan_id)

\* Faulty variant of the upsert: the stored document is replaced by the
\* given fields
save_caption_result_replace(db, dan_id, result, now) ==
    LET collection_name == get_collection_name(dan_id)
        fields  == Stamp(result, dan_id, now)
        old     == IF collection_name \in DOMAIN db THEN db[collection_name]
                   ELSE <<>>
        new     == [i \in (DOMAIN old) \cup {dan_id} |->
                       IF i = dan_id THEN fields ELSE old[i]]
    IN  [c \in (DOMAIN db) \cup {collection_name} |->
            IF c = collection_name THEN new ELSE db[c]]

\* DanbooruGeminiCaptions.save_caption_result: update_one({"_id": dan_id},
\* {"$set": result}, upsert=True) on the routed collection; now is time.time().
\* The store acknowledges the write (a write the store refuses is logged and
\* reported as False, which no caller reads).
save_caption_result(db, dan_id, result, now) ==
    LET collection_name == get_collection_name(dan_id)
        fields  == Stamp(result, dan_id, now)
        old     == IF collection_name \in DOMAIN db THEN db[collection_name]
                   ELSE <<>>
        stored  == IF dan_id \in DOMAIN old THEN Merge(old[dan_id], fields)
                   ELSE fields
        new     == [i \in (DOMAIN old) \cup {dan_id} |->
                       IF i = dan_id THEN stored ELSE old[i]]
    IN  [c \in (DOMAIN db) \cup {collection_name} |->
            IF c = collection_name THEN new ELSE db[c]]

(***************************************************************************)
(* GeminiApiClient: one call of the model client.                          *)
(* A response of generate_content is [kind, text, finish]:                 *)
(*   kind = "ConnectionError", "RefreshError", "Exception"                 *)
(*                       the request raised an exception of that type      *)
(*   kind = "none"       the response object is falsy                      *)
(*   kind = "no_text"    the response has no text attribute                *)
(*   kind = "response"   a response with text (possibly "") whose          *)
(*                       candidates carry the finish reasons in finish     *)
(* The text stands for what the model wrote; json_repair_loads gives what  *)
(* the json_repair library makes of it.                                    *)
(***************************************************************************)
SchemaKeys == {"regular_summary", "midjourney_style_summary", "short_summary",
               "creation_instructional_summary", "deviantart_commission_request"}

Texts == {"", "five_key_object", "object_without_short_summary", "null",
          "not json at all", "unparseable"}

FinishSets == {{}, {"STOP"}, {"PROHIBITED_CONTENT"}, {"SAFETY"},
               {"STOP", "SAFETY"}, {"MAX_TOKENS"}}

\* The three except clauses of the retry loop
RaisedTypes == {"ConnectionError", "RefreshError", "Exception"}

Responses ==
    {[kind |-> k, text |-> "", finish |-> {}] : k \in RaisedTypes \cup {"none", "no_text"}}
    \cup {[kind |-> "response", text |-> t, finish |-> f] :
              t \in Texts, f \in FinishSets}

\* json_repair.loads(text): the parsed value, or raised
json_repair_loads(text) ==
    CASE text = "five_key_object" ->
            [raised |-> FALSE, value |-> [kind |-> "object", keys |-> SchemaKeys]]
      [] text = "object_without_short_summary" ->
            [raised |-> FALSE,
             value |-> [kind |-> "object", keys |-> SchemaKeys \ {"short_summary"}]]
      [] text = "null" ->
            [raised |-> FALSE, value |-> [kind |-> "null", keys |-> {}]]
      [] text = "not json at all" ->
            [raised |-> FALSE, value |-> [kind |-> "string", keys |-> {}]]
      [] OTHER ->
            [raised |-> TRUE, value |-> [kind |-> "null", keys |-> {}]]

\* Faulty variant of the backoff: the same delay after every attempt
delay_retry_sync_constant(attempt) == retry_delay

\* GeminiApiClient._delay_retry_sync: the seconds slept after attempt
delay_retry_sync(attempt) == retry_delay * (2 ^ attempt)

\* An exception object: its type name and its message
Error(type, message) == [type |-> type, message |-> message]

\* last_error = None
NoError == Error(None, None)

\* The locals of _call_gemini_sync before the first attempt
NewCall ==
    [pc |-> "loop", attempt |-> 0, caption |-> None, last_error |-> NoError,
     events |-> <<>>, received |-> <<>>, result |-> <<>>]

IdleClient ==
    [pc |-> "idle", attempt |-> 0, caption |-> None, last_error |-> NoError,
     events |-> <<>>, received |-> <<>>, result |-> <<>>]

RequestEvent == [ev |-> "request", seconds |-> 0]
SleepEvent(attempt) == [ev |-> "sleep", seconds |-> delay_retry_sync(attempt)]

\* prohibited_content after the loop over response.candidates
ProhibitedContent(response) ==
    \E reason \in response.finish : reason \in {"PROHIBITED_CONTENT", "SAFETY"}

\* Faulty variant of the code after the loop: a text that does not parse is
\* reported like an exhausted retry loop
FinishCallParseErrorAs500(caption, last_error) ==
    LET parsed == IF caption # None THEN json_repair_loads(caption)
                  ELSE [raised |-> TRUE, value |-> [kind |-> "null", keys |-> {}]]
    IN  IF ~parsed.raised
        THEN ("success" :> TRUE) @@ ("caption" :> parsed.value)
             @@ ("raw_response" :> caption) @@ ("processing_time" :> 1)
             @@ ("status_code" :> 200)
        ELSE ("success" :> FALSE) @@ ("error" :> "API call failed")
             @@ ("error_type" :> "Exception") @@ ("error_stack" :> "stack")
             @@ ("processing_time" :> 1) @@ ("status_code" :> 500)

\* "处理结果": what _call_gemini_sync returns once the loop is left
FinishCall(caption, last_error) ==
    IF caption # None
    THEN LET parsed == json_repair_loads(caption)
         IN  IF ~parsed.raised
             THEN ("success" :> TRUE) @@ ("caption" :> parsed.value)
                  @@ ("raw_response" :> caption) @@ ("processing_time" :> 1)
                  @@ ("status_code" :> 200)
             ELSE ("success" :> FALSE) @@ ("raw_response" :> caption)
                  @@ ("processing_time" :> 1) @@ ("parse_error" :> "parse error")
                  @@ ("parse_error_stack" :> "stack") @@ ("error" :> "JSON parse failed")
                  @@ ("status_code" :> 400)
    ELSE LET failure == IF last_error = NoError
                        THEN Error("Exception", "all attempts failed")
                        ELSE last_error
         IN  ("success" :> FALSE)
             @@ ("error" :> ("API call failed: " \o failure.message))
             @@ ("error_type" :> failure.type)
             @@ ("error_stack" :> (failure.type \o ": " \o failure.message))
             @@ ("processing_time" :> 1) @@ ("status_code" :> 500)

\* The result returned from inside the loop on a content-policy refusal
PolicyResult ==
    ("success" :> FALSE) @@ ("error" :> "content policy violation")
    @@ ("error_type" :> "ContentPolicyViolation") @@ ("processing_time" :> 1)
    @@ ("status_code" :> 999)

\* Faulty variant of the transient failure: the first error is the one kept
TransientKeepsFirst(c, error) ==
    LET slept == Append(Append(c.events, RequestEvent), SleepEvent(c.attempt))
        kept  == IF c.last_error = NoError THEN error ELSE c.last_error
    IN  IF c.attempt + 1 < retry_attempts
        THEN [c EXCEPT !.attempt = c.attempt + 1, !.last_error = kept,
                       !.events = slept]
        ELSE [c EXCEPT !.attempt = c.attempt + 1, !.last_error = kept,
                       !.events = slept, !.pc = "returned",
                       !.result = FinishCall(c.caption, kept)]

\* Faulty variant of the transient failure: the call gives up at once
TransientGivesUp(c, error) ==
    [c EXCEPT !.attempt = c.attempt + 1, !.last_error = error,
              !.events = Append(Append(c.events, RequestEvent),
                                SleepEvent(c.attempt)),
              !.pc = "returned", !.result = FinishCall(c.caption, error)]

\* Faulty variant of the transient failure: one attempt more than allowed
TransientExtraAttempt(c, error) ==
    LET slept == Append(Append(c.events, RequestEvent), SleepEvent(c.attempt))
    IN  IF c.attempt < retry_attempts
        THEN [c EXCEPT !.attempt = c.attempt + 1, !.last_error = error,
                       !.events = slept]
        ELSE [c EXCEPT !.attempt = c.attempt + 1, !.last_error = error,
                       !.events = slept, !.pc = "returned",
                       !.result = FinishCall(c.caption, error)]

\* Faulty variant of the transient failure: no sleep after the last attempt
TransientNoLastSleep(c, error) ==
    IF c.attempt + 1 < retry_attempts
    THEN [c EXCEPT !.attempt = c.attempt + 1, !.last_error = error,
                   !.events = Append(Append(c.events, RequestEvent),
                                     SleepEvent(c.attempt))]
    ELSE [c EXCEPT !.attempt = c.attempt + 1, !.last_error = error,
                   !.events = Append(c.events, RequestEvent),
                   !.pc = "returned", !.result = FinishCall(c.caption, error)]

\* A transient failure of the attempt: remember the error, sleep, go on
Transient(c, error) ==
    LET slept == Append(Append(c.events, RequestEvent), SleepEvent(c.attempt))
    IN  IF c.attempt + 1 < retry_attempts
        THEN [c EXCEPT !.attempt = c.attempt + 1, !.last_error = error,
                       !.events = slept]
        ELSE [c EXCEPT !.attempt = c.attempt + 1, !.last_error = error,
                       !.events = slept, !.pc = "returned",
                       !.result = FinishCall(c.caption, error)]

\* Faulty variant of the refusal: it is retried like a transient failure
PolicyRetried(c) == Transient(c, Error("ContentPolicyViolation", "blocked"))

\* What an empty text with a content-policy finish reason leads to
Policy(c) ==
    [c EXCEPT !.events = Append(c.events, RequestEvent), !.pc = "returned",
              !.result = PolicyResult]

\* One iteration of "for attempt in range(self.retry_attempts)" on the given
\* response, and the code after the loop when the iteration leaves it
AttemptStep(c, response) ==
    CASE response.kind \in RaisedTypes ->
            Transient(c, Error(response.kind, "raised by generate_content"))
      [] response.kind = "none" ->
            Transient(c, Error("Exception", "response is None"))
      [] response.kind = "no_text" ->
            Transient(c, Error("Exception", "no text attribute"))
      [] response.kind = "response" /\ response.text = "" ->
            IF ProhibitedContent(response) THEN Policy(c)
            ELSE Transient(c, Error("Exception", "text is empty"))
      [] OTHER ->
            [c EXCEPT !.caption = response.text,
                      !.events = Append(c.events, RequestEvent),
                      !.pc = "returned",
                      !.result = FinishCall(response.text, c.last_error)]

RECURSIVE RunAttempts(_, _)
RunAttempts(c, responses) ==
    IF c.pc = "returned" \/ responses = <<>> THEN c
    ELSE RunAttempts(AttemptStep(c, Head(responses)), Tail(responses))

\* GeminiApiClient._call_gemini_sync against the responses the service gives
\* to the successive requests
call_gemini_sync(responses) == RunAttempts(NewCall, responses).result

\* GeminiApiClient.call_gemini_api: the result of the call run on a worker
\* thread, or the 500 result built when asyncio.to_thread raises
ThreadFailure ==
    ("success" :> FALSE) @@ ("error" :> "thread failed")
    @@ ("error_type" :> "RuntimeError") @@ ("status_code" :> 500)

ResponseSeqs == [1 .. retry_attempts -> Responses]

ApiResults == {call_gemini_sync(rs) : rs \in ResponseSeqs} \cup {ThreadFailure}

(***************************************************************************)
(* State.                                                                  *)
(***************************************************************************)
VARIABLES
    pics,      \* the metadata collection: id -> [md5, file_ext], for ids of Ids
    pics_db_cache, \* DanbooruPics.pics_db_cache
    db,        \* the caption store: collection name -> (_id -> document)
    rest,      \* the shard keys whose ids outside Ids are stored with 404
    runs,      \* entry-point invocations started so far; also time.time()
    orch,      \* the entry point in progress and its locals
    worker,    \* per task of the current run, its process_single_id invocation
    max_concurrency, \* BatchProcessor.max_concurrency
    permits,   \* the value of BatchProcessor.semaphore
    client,    \* the locals of one _call_gemini_sync call followed step by step
    call       \* a call of a function followed on its own: arguments and result

vars == <<pics, pics_db_cache, db, rest, runs, orch, worker, max_concurrency, permits, client, call>>

\* No function is followed on its own
NoCall == [op |-> "none"]

\* Python truthiness of an Optional[str]
Truthy(x) == x # None /\ x # ""

Md5 == "d41d8cd98f00b204e9800998ecf8427e"

\* The metadata records the runs are tried on
PicRecords ==
    {[md5 |-> Md5, file_ext |-> "jpg"],
     [md5 |-> Md5, file_ext |-> "gif"],
     [md5 |-> Md5, file_ext |-> None],
     [md5 |-> "", file_ext |-> "jpg"]}

PicStores == UNION {[present -> PicRecords] : present \in SUBSET Ids}

\* The ids outside Ids are not followed one by one.  Each of them has the
\* metadata record RestRecord (a GIF, which resolves to no URL, so that no
\* worker is ever dispatched for it), and the ids of one shard share one
\* stored outcome: none or a document with status_code 405, neither of them
\* processed, or, for the shards of rest, a document with status_code 404.
RestRecord == [md5 |-> Md5, file_ext |-> "gif"]

\* The shards the entry points by key are called for
Keys == {id \div ShardSize : id \in Ids}

\* How many ids outside Ids lie in start .. end - 1
RestIn(start, end) ==
    Max(end - start, 0) - Cardinality({id \in Ids : id >= start /\ id < end})

RECURSIVE SumOver(_, _)
SumOver(f, S) ==
    IF S = {} THEN 0
    ELSE LET x == CHOOSE y \in S : TRUE IN f[x] + SumOver(f, S \ {x})

\* How many of them get_processed_ids finds, the shards of processed being
\* those stored with 404
RestProcessedIn(processed, start, end) ==
    SumOver([key \in processed |->
                RestIn(Max(start, key * ShardSize), Min(end, (key + 1) * ShardSize))],
            processed)

\* Documents left in the store by earlier runs and earlier versions of the
\* pipeline, all for the first id
LegacyDocs ==
    {("_id" :> ShardSize - 1) @@ ("success" :> FALSE) @@ ("status_code" :> code)
        : code \in {403, 404, 405, 998}}
    \cup {("_id" :> ShardSize - 1) @@ ("prompt" :> "prompt")}
    \cup {("_id" :> ShardSize - 1) @@ ("success" :> TRUE) @@ ("status_code" :> 200)
           @@ ("prompt" :> "prompt")
           @@ ("caption" :> [kind |-> "object", keys |-> SchemaKeys])}

InitialStores ==
    {<<>>} \cup {"0" :> ((ShardSize - 1) :> doc) : doc \in LegacyDocs}

\* The tasks one run may create
Tasks == 1 .. NumIds

NoWorker == [pc |-> "none", id |-> 0, url |-> None, skip_existing_check |-> FALSE,
             saved |-> FALSE, result |-> <<>>]

IdleOrch ==
    [pc |-> "idle", entry |-> "none", start_id |-> 0, end_id |-> 0,
     id_list |-> <<>>, processed_ids |-> {}, url_batch_result |-> <<>>,
     ids_to_process |-> <<>>, url_map |-> <<>>, no_url |-> {},
     no_url_tasks |-> 0, stats |-> <<>>, previous |-> "none"]

Init ==
    /\ pics \in PicStores
    /\ pics_db_cache = EmptyCache
    /\ db \in InitialStores
    /\ rest = {}
    /\ runs = 0
    /\ orch = IdleOrch
    /\ worker = [t \in Tasks |-> NoWorker]
    /\ max_concurrency = 1
    /\ permits = max_concurrency
    /\ client = IdleClient
    /\ call = NoCall

(***************************************************************************)
(* DanbooruPics._build_cache and check_urls_by_key.  The cursor of         *)
(* _build_cache yields the records of the shard by ascending _id; the      *)
(* first record DanbooruPicDoc raises on ends the loop, the records after  *)
(* it are not read.                                                        *)
(***************************************************************************)
\* The ids of Ids in the shard of key
ShardIds(key) == {id \in Ids : id \div ShardSize = key}

\* The ids of Ids whose record ends the loop of _build_cache(start, end)
Malformed(pictures, key) ==
    {id \in ShardIds(key) \cap DOMAIN pictures : DanbooruPicDoc(pictures[id]).raised}

\* pics_db_cache after check_urls_by_key has dropped the entries out of the
\* shard and _build_cache has run
build_cache(pictures, cache, key) ==
    LET kept == [ids |-> cache.ids \cap ShardIds(key), rest |-> cache.rest \cap {key}]
        stops == Malformed(pictures, key)
        stop  == CHOOSE id \in stops : \A other \in stops : id <= other
    IN  IF stops = {}
        THEN [ids |-> kept.ids \cup (ShardIds(key) \cap DOMAIN pictures),
              rest |-> {key}]
        ELSE [ids |-> kept.ids
                      \cup {id \in ShardIds(key) \cap DOMAIN pictures : id < stop},
              rest |-> IF RestIn(stop, (key + 1) * ShardSize) = 0 THEN {key}
                       ELSE kept.rest]

\* DanbooruPics.check_urls_by_key, for the ids of Ids: the url and status of
\* the cached document, or status 404 for an id the cache does not hold
check_urls_by_key(pictures, cache, key) ==
    LET built == build_cache(pictures, cache, key)
    IN  [post_id \in ShardIds(key) |->
            IF post_id \in built.ids
            THEN LET doc == DanbooruPicDoc(pictures[post_id])
                 IN  [url |-> doc.url, status |-> doc.status]
            ELSE [url |-> None, status |-> 404]]

\* The status check_urls_by_key gives the ids outside Ids of the shard
RestStatus(pictures, cache, key) ==
    IF key \in build_cache(pictures, cache, key).rest
    THEN DanbooruPicDoc(RestRecord).status
    ELSE 404

(***************************************************************************)
(* BatchProcessor.process_single_id and _process_id_with_semaphore.        *)
(* A worker's pc: "pending" (waiting for the semaphore), "start", "fetch", *)
(* "model" (the awaits it is suspended at), "done", "cancelled".  saved    *)
(* records whether the invocation has called save_caption_result.          *)
(***************************************************************************)
InBatch == orch.entry \notin {"none", "process_single_id"}

\* Faulty variant of locked: a semaphore that admits every task
locked_never(value) == FALSE

\* Faulty variant of locked: a semaphore that admits one task less
locked_early(value) == value <= 1

\* asyncio.Semaphore.locked()
locked(value) == value = 0

\* Faulty variant of the exit: the permit is kept
ReturnsKeepingPermit(t, result, saved) ==
    /\ worker' = [worker EXCEPT ![t].pc = "done", ![t].result = result,
                                ![t].saved = saved]
    /\ permits' = permits
    /\ orch' = IF InBatch THEN orch ELSE [orch EXCEPT !.pc = "returned"]

\* The worker leaves process_single_id with result; "async with" releases
\* the semaphore, and a direct call hands the result to its caller
Returns(t, result, saved) ==
    /\ worker' = [worker EXCEPT ![t].pc = "done", ![t].result = result,
                                ![t].saved = saved]
    /\ IF InBatch
       THEN permits' = permits + 1 /\ orch' = orch
       ELSE permits' = permits /\ orch' = [orch EXCEPT !.pc = "returned"]

\* The "except Exception" of _process_id_with_semaphore
ExceptionResult(dan_id) ==
    ("success" :> FALSE) @@ ("error" :> "exception") @@ ("_id" :> dan_id)

\* Faulty variant of the handler: the exception is handed on as raised
RaisesUncaught(t) ==
    /\ db' = db
    /\ Returns(t, "raised" :> TRUE, worker[t].saved)

\* An exception leaves process_single_id (from the statements of the worker
\* that no try block guards): _process_id_with_semaphore turns it into a
\* result, a direct caller sees it raised
Raises(t) ==
    /\ db' = db
    /\ IF InBatch
       THEN Returns(t, ExceptionResult(worker[t].id), worker[t].saved)
       ELSE Returns(t, "raised" :> TRUE, worker[t].saved)

\* "async with self.semaphore": the task enters when the semaphore is free
Acquire(t) ==
    /\ orch.pc = "gather"
    /\ worker[t].pc = "pending"
    /\ ~locked(permits)
    /\ permits' = permits - 1
    /\ worker' = [worker EXCEPT ![t].pc = "start"]
    /\ UNCHANGED <<pics, pics_db_cache, db, rest, runs, orch, max_concurrency, client, call>>

SkippedResult(existing_result) ==
    ("success" :> TRUE) @@ ("skipped" :> TRUE)
    @@ ("existing_result" :> existing_result) @@ ("processing_time" :> 1)

NoUrlResult(dan_id, status) ==
    ("_id" :> dan_id) @@ ("success" :> FALSE) @@ ("error" :> "no URL")
    @@ ("processing_time" :> 1) @@ ("status_code" :> status)

GifResult(dan_id, url) ==
    ("_id" :> dan_id) @@ ("success" :> FALSE) @@ ("error" :> "GIF not processed")
    @@ ("image_url" :> url) @@ ("processing_time" :> 1) @@ ("status_code" :> 405)

\* The GIF gate on the resolved url
IsGif(url) ==
    Truthy(url) /\ (EndsWith(Lower(url), ".gif") \/ Contains(Lower(url), ".gif"))

\* process_single_id from its entry to the await of process_image_by_id
WorkerStart(t) ==
    /\ worker[t].pc = "start"
    /\ UNCHANGED <<pics, rest, runs, max_concurrency, client, call>>
    /\ LET w == worker[t]
           id == w.id
           existing == IF w.skip_existing_check THEN {}
                       ELSE check_existing_result(db, id)
       IN  IF existing # {}
           THEN /\ db' = db
                /\ pics_db_cache' = pics_db_cache
                /\ Returns(t, SkippedResult(CHOOSE d \in existing : TRUE), w.saved)
           ELSE \E fault \in StoreFaults :
                LET resolved == IF Truthy(w.url) THEN [url |-> w.url, status |-> 200]
                                ELSE get_url_by_id(pics, pics_db_cache, id, fault)
                IN  /\ pics_db_cache' =
                           IF Truthy(w.url) THEN pics_db_cache
                           ELSE [pics_db_cache EXCEPT
                                    !.ids = Cached(pics, pics_db_cache, {id},
                                                   id :> fault)]
                    /\ IF resolved.status # 200
                       THEN /\ db' = save_caption_result(db, id,
                                        NoUrlResult(id, resolved.status), runs)
                            /\ Returns(t, Stamp(NoUrlResult(id, resolved.status), id, runs), TRUE)
                       ELSE IF IsGif(resolved.url)
                       THEN /\ db' = save_caption_result(db, id,
                                        GifResult(id, resolved.url), runs)
                            /\ Returns(t, Stamp(GifResult(id, resolved.url), id, runs), TRUE)
                       ELSE /\ db' = db
                            /\ worker' = [worker EXCEPT ![t].pc = "fetch",
                                                        ![t].url = resolved.url]
                            /\ UNCHANGED <<orch, permits>>

ImageFailedResult(dan_id, url) ==
    ("_id" :> dan_id) @@ ("success" :> FALSE) @@ ("error" :> "download failed")
    @@ ("image_url" :> url) @@ ("processing_time" :> 1)

\* What process_image_by_id does for the worker
ImageOutcomes == {"bytes", "no_bytes", "raises"}

\* process_single_id from the return of process_image_by_id to the await of
\* call_gemini_api
WorkerFetch(t) ==
    /\ worker[t].pc = "fetch"
    /\ UNCHANGED <<pics, rest, runs, max_concurrency, client, call>>
    /\ LET id == worker[t].id
       IN  \E image \in ImageOutcomes :
              CASE image = "raises" -> pics_db_cache' = pics_db_cache /\ Raises(t)
                [] image = "no_bytes" ->
                     /\ pics_db_cache' = pics_db_cache
                     /\ db' = save_caption_result(db, id,
                                  ImageFailedResult(id, worker[t].url), runs)
                     /\ Returns(t, Stamp(ImageFailedResult(id, worker[t].url), id, runs), TRUE)
                [] OTHER ->
                     \* the tags are read with get_pic_data_by_id and the prompt
                     \* is built; what follows the read may raise
                     \E fault \in StoreFaults : \E context \in {"built", "raises"} :
                        /\ pics_db_cache' =
                               [pics_db_cache EXCEPT
                                   !.ids = Cached(pics, pics_db_cache, {id}, id :> fault)]
                        /\ IF context = "raises" THEN Raises(t)
                           ELSE /\ db' = db
                                /\ worker' = [worker EXCEPT ![t].pc = "model"]
                                /\ UNCHANGED <<orch, permits>>

ApiFailedResult(dan_id, url, api_result) ==
    ("_id" :> dan_id) @@ ("success" :> FALSE)
    @@ ("error" :> Get(api_result, "error", "API call failed"))
    @@ ("image_url" :> url) @@ ("processing_time" :> 1)
    @@ ("status_code" :> Get(api_result, "status_code", 500))

SuccessResult(dan_id, url, api_result) ==
    ("_id" :> dan_id) @@ ("image_url" :> url) @@ ("prompt" :> "prompt")
    @@ ("caption" :> api_result["caption"]) @@ ("artist" :> "artist_tags")
    @@ ("character" :> "character_tags") @@ ("tags" :> "general_tags")
    @@ ("success" :> TRUE) @@ ("processing_time" :> 1)
    @@ ("status_code" :> Get(api_result, "status_code", 200))

\* The result process_single_id builds from the api_result, and saves
ResultOf(dan_id, url, api_result) ==
    IF ~api_result["success"] THEN ApiFailedResult(dan_id, url, api_result)
    ELSE SuccessResult(dan_id, url, api_result)

\* process_single_id from the return of call_gemini_api to its end
WorkerModel(t) ==
    /\ worker[t].pc = "model"
    /\ UNCHANGED <<pics, pics_db_cache, rest, runs, max_concurrency, client, call>>
    /\ LET id == worker[t].id
       IN  \E api_result \in ApiResults :
              /\ db' = save_caption_result(db, id,
                           ResultOf(id, worker[t].url, api_result), runs)
              /\ Returns(t, Stamp(ResultOf(id, worker[t].url, api_result), id, runs), TRUE)

(***************************************************************************)
(* BatchProcessor.process_batch.                                           *)
(***************************************************************************)
RangeBounds == (ShardSize - 1) .. (ShardSize + NumIds - 1)

\* The ranges process_batch is called for: those between two bounds next to
\* the ids of Ids, and the whole shards
Ranges ==
    {<<start_id, end_id>> \in RangeBounds \X RangeBounds : start_id <= end_id}
    \cup {<<key * ShardSize, (key + 1) * ShardSize>> : key \in Keys}

\* range(start_id, end_id, batch_size)
BatchStarts(start_id, end_id) ==
    {start_id + k * batch_size : k \in 0 .. ((end_id - start_id - 1) \div batch_size)}

\* The ids of Ids in id_batch of the sub-range at batch_start, the processed
\* ids filtered out
IdBatch(batch_start, end_id, processed_ids) ==
    {id_value \in Ids :
        /\ id_value >= batch_start
        /\ id_value < Min(batch_start + batch_size, end_id)
        /\ id_value \notin processed_ids}

\* How many ids outside Ids id_batch holds
RestBatch(batch_start, end_id) ==
    LET batch_end == Min(batch_start + batch_size, end_id)
    IN  RestIn(batch_start, batch_end) - RestProcessedIn(rest, batch_start, batch_end)

\* The shards whose ids outside Ids the pre-scan reads: those the range
\* covers that are not processed
RestRead(start_id, end_id) ==
    {key \in Keys \ rest :
        start_id <= key * ShardSize /\ (key + 1) * ShardSize <= end_id}

\* The sub-ranges whose id_batch is not empty
Scanned(start_id, end_id, processed_ids) ==
    {batch_start \in BatchStarts(start_id, end_id) :
        \/ IdBatch(batch_start, end_id, processed_ids) # {}
        \/ RestBatch(batch_start, end_id) > 0}

\* data.get("status") == 200 and data.get("url")
HasUrl(data) == data.status = 200 /\ Truthy(data.url)

\* ids_to_process after the pre-scan loop, as a set
IdsToProcess(pictures, cache, start_id, end_id, processed_ids, faultOf) ==
    UNION { LET id_batch == IdBatch(batch_start, end_id, processed_ids)
                url_batch_result == check_url_by_id_batch(pictures, cache, id_batch, faultOf)
            IN  {id_value \in id_batch : HasUrl(url_batch_result[id_value])}
          : batch_start \in BatchStarts(start_id, end_id) }

\* The last sub-range that had an unprocessed id
LastScanned(start_id, end_id, processed_ids) ==
    LET scanned == Scanned(start_id, end_id, processed_ids)
    IN  CHOOSE b \in scanned : \A o \in scanned : o <= b

\* url_batch_result as the pre-scan loop leaves it: the result of the last
\* sub-range that had an unprocessed id (here for the ids of Ids)
LastUrlBatchResult(pictures, cache, start_id, end_id, processed_ids, faultOf) ==
    IF Scanned(start_id, end_id, processed_ids) = {} THEN <<>>
    ELSE check_url_by_id_batch(pictures, cache,
             IdBatch(LastScanned(start_id, end_id, processed_ids), end_id,
                     processed_ids),
             faultOf)

\* The ids of Ids the "no URL" loop creates a record for
NoUrlIds(start_id, end_id, processed_ids, ids_to_process, url_batch_result) ==
    {id_value \in Ids :
        /\ id_value >= start_id
        /\ id_value < end_id
        /\ id_value \notin processed_ids
        /\ id_value \notin ids_to_process
        /\ id_value \in DOMAIN url_batch_result
        /\ ~HasUrl(url_batch_result[id_value])}

\* How many ids outside Ids the "no URL" loop creates a record for: those of
\* url_batch_result
RestNoUrl(start_id, end_id, processed_ids) ==
    IF Scanned(start_id, end_id, processed_ids) = {} THEN 0
    ELSE RestBatch(LastScanned(start_id, end_id, processed_ids), end_id)

BulkNoUrlResult(id_value, data) ==
    ("_id" :> id_value) @@ ("success" :> FALSE) @@ ("error" :> "no URL")
    @@ ("processing_time" :> 0) @@ ("status_code" :> data.status)

RECURSIVE SaveNoUrl(_, _, _, _)
\* asyncio.gather(*no_url_tasks)
SaveNoUrl(store, ids, url_batch_result, now) ==
    IF ids = {} THEN store
    ELSE LET id_value == CHOOSE i \in ids : TRUE
         IN  SaveNoUrl(save_caption_result(store, id_value,
                           BulkNoUrlResult(id_value, url_batch_result[id_value]), now),
                       ids \ {id_value}, url_batch_result, now)

NewWorker(id, url) ==
    [pc |-> "pending", id |-> id, url |-> url, skip_existing_check |-> FALSE,
     saved |-> FALSE, result |-> <<>>]

RECURSIVE Ascending(_)
\* The ids of a set in the order a loop over a range meets them
Ascending(ids) ==
    IF ids = {} THEN <<>>
    ELSE LET least == CHOOSE i \in ids : \A o \in ids : i <= o
         IN  <<least>> \o Ascending(ids \ {least})

\* The elements of a list
Elems(list) == {list[k] : k \in 1 .. Len(list)}

\* An entry point past its pre-scan and its "no URL" loop: the records of the
\* ids without URL are saved, and it is at asyncio.gather(*tasks), one task
\* per element of ids_to_process, or at its return when there is nothing to
\* process
Dispatch(locals) ==
    /\ db' = SaveNoUrl(db, locals.no_url, locals.url_batch_result, runs')
    /\ orch' = [locals EXCEPT
                   !.pc = IF locals.ids_to_process = <<>> THEN "returned" ELSE "gather",
                   !.previous = orch.entry]
    /\ worker' = [t \in Tasks |->
                    IF t <= Len(locals.ids_to_process)
                    THEN NewWorker(locals.ids_to_process[t],
                                   locals.url_map[locals.ids_to_process[t]])
                    ELSE NoWorker]

\* The locals of process_batch after its pre-scan and its "no URL" loop
BatchScan(pictures, cache, store, start_id, end_id, faultOf) ==
    LET processed_ids == get_processed_ids(store, start_id, end_id)
        ids_to_process ==
            IdsToProcess(pictures, cache, start_id, end_id, processed_ids, faultOf)
        url_batch_result ==
            LastUrlBatchResult(pictures, cache, start_id, end_id, processed_ids, faultOf)
        url_map == check_url_by_id_batch(pictures, cache, ids_to_process, faultOf)
        no_url == NoUrlIds(start_id, end_id, processed_ids, ids_to_process,
                           url_batch_result)
    IN  [IdleOrch EXCEPT
            !.entry = "process_batch",
            !.start_id = start_id, !.end_id = end_id,
            !.processed_ids = processed_ids,
            !.url_batch_result = url_batch_result,
            !.ids_to_process = Ascending(ids_to_process),
            !.url_map = [id \in ids_to_process |-> url_map[id].url],
            !.no_url = no_url,
            !.no_url_tasks = Cardinality(no_url)
                             + RestNoUrl(start_id, end_id, processed_ids),
            !.stats = [total |-> end_id - start_id, success |-> 0, failed |-> 0,
                       skipped |-> Cardinality(processed_ids)
                                   + RestProcessedIn(rest, start_id, end_id)]]

\* process_batch from its entry to asyncio.gather(*tasks), or to its return
\* when there is nothing to process
ProcessBatch(start_id, end_id) ==
    /\ orch.pc \in {"idle", "returned", "cancelled"}
    /\ runs < MaxRuns
    /\ runs' = runs + 1
    /\ \E faultOf \in [Ids -> StoreFaults] :
        LET locals == BatchScan(pics, pics_db_cache, db, start_id, end_id, faultOf)
        IN  /\ pics_db_cache' =
                   [ids |-> Cached(pics, pics_db_cache,
                                   {id \in Ids \ locals.processed_ids :
                                       id >= start_id /\ id < end_id}, faultOf),
                    rest |-> pics_db_cache.rest \cup RestRead(start_id, end_id)]
            /\ Dispatch(locals)
    /\ UNCHANGED <<pics, rest, max_concurrency, permits, client, call>>

\* The counters after the loop over results, and the no-URL ids added
Aggregate(stats, results, no_url_tasks) ==
    LET succeeded == {t \in DOMAIN results : Get(results[t], "success", FALSE)}
    IN  [stats EXCEPT !.success = Cardinality(succeeded),
                      !.failed = Cardinality((DOMAIN results) \ succeeded)
                                 + no_url_tasks]

\* The tasks of the run
Dispatched == 1 .. Len(orch.ids_to_process)

\* An entry point from the return of asyncio.gather(*tasks) to its return
BatchReturn ==
    /\ orch.pc = "gather"
    /\ \A t \in Dispatched : worker[t].pc = "done"
    /\ orch' = [orch EXCEPT
                   !.pc = "returned",
                   !.stats = Aggregate(orch.stats,
                                 [t \in Dispatched |-> worker[t].result],
                                 orch.no_url_tasks)]
    /\ UNCHANGED <<pics, pics_db_cache, db, rest, runs, worker, max_concurrency, permits, client, call>>

(***************************************************************************)
(* BatchProcessor.process_batch_by_key and process_batch_by_key_with_range. *)
(***************************************************************************)
\* ids_to_process of the entry points by key, as a set
IdsToProcessByKey(range_start, range_end, processed_ids, url_batch_result) ==
    {id_value \in Ids :
        /\ id_value >= range_start
        /\ id_value < range_end
        /\ id_value \in DOMAIN url_batch_result
        /\ id_value \notin processed_ids
        /\ HasUrl(url_batch_result[id_value])}

\* How many ids outside Ids the "no URL" loop of an entry point by key creates
\* a record for: those of the range that are in the shard and not processed
RestNoUrlByKey(key, range_start, range_end) ==
    LET start == Max(range_start, key * ShardSize)
        end   == Min(range_end, (key + 1) * ShardSize)
    IN  RestIn(start, end) - RestProcessedIn(rest \cap {key}, start, end)

\* The locals of an entry point by key after its pre-scan and its "no URL"
\* loop.  A range holds all the ids outside Ids of the shard or none of them.
KeyScan(pictures, cache, store, entry, key, range_start, range_end) ==
    LET processed_ids == get_processed_ids(store, range_start, range_end)
        url_batch_result == check_urls_by_key(pictures, cache, key)
        ids_to_process == IdsToProcessByKey(range_start, range_end, processed_ids,
                                            url_batch_result)
        no_url == NoUrlIds(range_start, range_end, processed_ids, ids_to_process,
                           url_batch_result)
    IN  [IdleOrch EXCEPT
            !.entry = entry,
            !.start_id = range_start, !.end_id = range_end,
            !.processed_ids = processed_ids,
            !.url_batch_result = url_batch_result,
            !.ids_to_process = Ascending(ids_to_process),
            !.url_map = [id \in ids_to_process |-> url_batch_result[id].url],
            !.no_url = no_url,
            !.no_url_tasks = Cardinality(no_url)
                             + RestNoUrlByKey(key, range_start, range_end),
            !.stats = [total |-> range_end - range_start, success |-> 0,
                       failed |-> 0,
                       skipped |-> Cardinality(processed_ids)
                                   + RestProcessedIn(rest, range_start, range_end)]]

\* An entry point by key from its entry to asyncio.gather(*tasks), or to its
\* return when there is nothing to process
ByKey(entry, key, range_start, range_end) ==
    /\ orch.pc \in {"idle", "returned", "cancelled"}
    /\ runs < MaxRuns
    /\ runs' = runs + 1
    /\ pics_db_cache' = build_cache(pics, pics_db_cache, key)
    /\ rest' = IF /\ RestNoUrlByKey(key, range_start, range_end) > 0
                  /\ RestStatus(pics, pics_db_cache, key) = 404
               THEN rest \cup {key} ELSE rest
    /\ Dispatch(KeyScan(pics, pics_db_cache, db, entry, key, range_start, range_end))
    /\ UNCHANGED <<pics, max_concurrency, permits, client, call>>

ProcessBatchByKey(key) ==
    ByKey("process_batch_by_key", key, key * ShardSize, (key + 1) * ShardSize)

\* start_id and end_id are offsets from key * 100000 (None gives the bounds
\* of the shard, as the offsets 0 and 100000 do)
ProcessBatchByKeyWithRange(key, start_id, end_id) ==
    ByKey("process_batch_by_key_with_range", key,
          key * ShardSize + start_id, key * ShardSize + end_id)

\* The offsets process_batch_by_key_with_range is called with: those of the
\* ranges that start in the shard
Offsets(key) ==
    {<<range[1] - key * ShardSize, range[2] - key * ShardSize>> :
        range \in {r \in Ranges : r[1] \div ShardSize = key}}

(***************************************************************************)
(* BatchProcessor.process_id_list, for a non-empty list of integer ids.    *)
(***************************************************************************)
\* The lists process_id_list is called for
IdLists == UNION {[1 .. n -> Ids] : n \in 1 .. NumIds}

\* min(int_id_list), max(int_id_list)
MinOf(list) == CHOOSE i \in Elems(list) : \A o \in Elems(list) : i <= o
MaxOf(list) == CHOOSE i \in Elems(list) : \A o \in Elems(list) : i >= o

\* The processed ids process_id_list filters with: read only when the list
\* holds two different ids
ProcessedOfList(store, int_id_list) ==
    IF MaxOf(int_id_list) > MinOf(int_id_list)
    THEN get_processed_ids(store, MinOf(int_id_list), MaxOf(int_id_list) + 1)
    ELSE {}

\* The locals of process_id_list after its pre-scan and its "no URL" loop
ListScan(pictures, cache, store, id_list, faultOf) ==
    LET processed_ids == ProcessedOfList(store, id_list)
        url_batch_result ==
            check_url_by_id_batch(pictures, cache, Elems(id_list), faultOf)
        ToProcess(id_value) ==
            id_value \notin processed_ids /\ HasUrl(url_batch_result[id_value])
        ids_to_process == SelectSeq(id_list, ToProcess)
        NoUrl(id_value) ==
            id_value \notin processed_ids /\ ~HasUrl(url_batch_result[id_value])
        no_url_tasks == SelectSeq(id_list, NoUrl)
    IN  [IdleOrch EXCEPT
            !.entry = "process_id_list",
            !.start_id = MinOf(id_list), !.end_id = MaxOf(id_list) + 1,
            !.id_list = id_list,
            !.processed_ids = processed_ids,
            !.url_batch_result = url_batch_result,
            !.ids_to_process = ids_to_process,
            !.url_map = [id \in Elems(ids_to_process) |-> url_batch_result[id].url],
            !.no_url = Elems(no_url_tasks),
            !.no_url_tasks = Len(no_url_tasks),
            !.stats = [total |-> Len(id_list), success |-> 0, failed |-> 0,
                       skipped |-> Cardinality(processed_ids \cap Elems(id_list))]]

\* process_id_list from its entry to asyncio.gather(*tasks), or to its return
\* when there is nothing to process
ProcessIdList(id_list) ==
    /\ orch.pc \in {"idle", "returned", "cancelled"}
    /\ runs < MaxRuns
    /\ runs' = runs + 1
    /\ \E faultOf \in [Ids -> StoreFaults] :
          /\ pics_db_cache' =
                 [pics_db_cache EXCEPT
                     !.ids = Cached(pics, pics_db_cache, Elems(id_list), faultOf)]
          /\ Dispatch(ListScan(pics, pics_db_cache, db, id_list, faultOf))
    /\ UNCHANGED <<pics, rest, max_concurrency, permits, client, call>>

(***************************************************************************)
(* Cancellation of the task that runs an entry point, while it awaits      *)
(* the gather of its tasks: gather cancels every task that has not ended; *)
(* CancelledError is raised in the task at the await it is suspended at,   *)
(* no handler of the worker catches it, and "async with" releases the      *)
(* semaphore of a task that held it.                                       *)
(***************************************************************************)
\* Faulty variant of the cancellation: only the waiting tasks are cancelled
CancelledPendingOnly(w) ==
    IF w.pc = "pending"
    THEN [w EXCEPT !.pc = "cancelled", !.result = "cancelled_at" :> w.pc]
    ELSE w

\* What the cancellation of gather does to a task: CancelledError is the
\* outcome of the task, raised at the await it was suspended at
Cancelled(w) ==
    IF w.pc \in {"pending", "start", "fetch", "model"}
    THEN [w EXCEPT !.pc = "cancelled", !.result = "cancelled_at" :> w.pc]
    ELSE w

Cancel ==
    /\ orch.pc = "gather"
    /\ orch' = [orch EXCEPT !.pc = "cancelled"]
    /\ worker' = [t \in Tasks |-> Cancelled(worker[t])]
    /\ permits' = permits
                  + Cardinality({t \in Tasks :
                        /\ worker[t].pc \in {"start", "fetch", "model"}
                        /\ worker'[t].pc = "cancelled"})
    /\ UNCHANGED <<pics, pics_db_cache, db, rest, runs, max_concurrency, client, call>>

\* custom_url arguments a direct caller of process_single_id may pass
CustomUrls == {None, "https://example.org/picture.GIF"}

\* A direct call of process_single_id (no semaphore)
ProcessSingleId(dan_id, skip_existing_check, custom_url) ==
    /\ orch.pc \in {"idle", "returned", "cancelled"}
    /\ runs < MaxRuns
    /\ runs' = runs + 1
    /\ orch' = [IdleOrch EXCEPT !.pc = "single", !.entry = "process_single_id",
                                !.start_id = dan_id, !.end_id = dan_id + 1,
                                !.previous = orch.entry]
    /\ worker' = [t \in Tasks |->
                    IF t = 1
                    THEN [pc |-> "start", id |-> dan_id, url |-> custom_url,
                          skip_existing_check |-> skip_existing_check,
                          saved |-> FALSE, result |-> <<>>]
                    ELSE NoWorker]
    /\ UNCHANGED <<pics, pics_db_cache, db, rest, max_concurrency, permits, client, call>>

Next ==
    \/ \E start_id \in RangeBounds :
          \E end_id \in {bound \in RangeBounds : start_id <= bound} :
              ProcessBatch(start_id, end_id)
    \/ \E id \in Ids : \E skip \in BOOLEAN : \E url \in CustomUrls :
          ProcessSingleId(id, skip, url)
    \/ \E t \in Tasks : Acquire(t)
    \/ \E t \in Tasks : WorkerStart(t)
    \/ \E t \in Tasks : WorkerFetch(t)
    \/ \E t \in Tasks : WorkerModel(t)
    \/ BatchReturn

Spec == Init /\ [][Next]_vars

(***************************************************************************)
(* The last run of a behaviour, by any of the entry points over a range or *)
(* a list, on a store that earlier runs have left, with a semaphore of     *)
(* MaxConcurrency permits; the run may be cancelled.                       *)
(***************************************************************************)
\* The outcomes earlier runs have stored for an id
StoredOutcomes(id) ==
    {("_id" :> id) @@ ("success" :> FALSE) @@ ("status_code" :> code)
         @@ ("created_at" :> 0)
        : code \in {405, 999}}
    \cup {("_id" :> id) @@ ("success" :> TRUE) @@ ("status_code" :> 200)
           @@ ("prompt" :> "prompt") @@ ("created_at" :> 0)
           @@ ("caption" :> [kind |-> "object", keys |-> SchemaKeys])}

RECURSIVE StoreOf(_)
\* The store that holds the documents of outcomes, a function from ids
StoreOf(outcomes) ==
    IF DOMAIN outcomes = {} THEN <<>>
    ELSE LET id == CHOOSE i \in DOMAIN outcomes : TRUE
             others == [i \in (DOMAIN outcomes) \ {id} |-> outcomes[i]]
             store == StoreOf(others)
             name == get_collection_name(id)
             old == IF name \in DOMAIN store THEN store[name] ELSE <<>>
         IN  Merge(store, name :> Merge(old, id :> outcomes[id]))

EarlierStores ==
    UNION {{StoreOf(outcomes) :
               outcomes \in {f \in [stored -> UNION {StoredOutcomes(id) : id \in Ids}] :
                                 \A id \in stored : f[id] \in StoredOutcomes(id)}}
           : stored \in SUBSET Ids}

InitEntryPoints ==
    /\ pics \in PicStores
    /\ pics_db_cache = EmptyCache
    /\ db \in EarlierStores
    /\ rest \in {{}, Keys}
    /\ runs = MaxRuns - 1
    /\ orch = IdleOrch
    /\ worker = [t \in Tasks |-> NoWorker]
    /\ max_concurrency = MaxConcurrency
    /\ permits = max_concurrency
    /\ client = IdleClient
    /\ call = NoCall

NextEntryPoints ==
    \/ \E range \in Ranges : ProcessBatch(range[1], range[2])
    \/ \E key \in Keys : ProcessBatchByKey(key)
    \/ \E key \in Keys : \E offsets \in Offsets(key) :
          ProcessBatchByKeyWithRange(key, offsets[1], offsets[2])
    \/ \E id_list \in IdLists : ProcessIdList(id_list)
    \/ \E t \in Tasks : Acquire(t)
    \/ \E t \in Tasks : WorkerStart(t)
    \/ \E t \in Tasks : WorkerFetch(t)
    \/ \E t \in Tasks : WorkerModel(t)
    \/ BatchReturn
    \/ Cancel

SpecEntryPoints == InitEntryPoints /\ [][NextEntryPoints]_vars

(***************************************************************************)
(* The entry points run to their end: no cancellation, every awaited store *)
(* operation, download and model call terminates, and the event loop runs  *)
(* every task that is ready; the semaphore wakes a waiter whenever a       *)
(* permit is free.                                                         *)
(***************************************************************************)
InitFair ==
    /\ pics \in PicStores
    /\ pics_db_cache = EmptyCache
    /\ db = <<>>
    /\ rest = {}
    /\ runs = MaxRuns - 1
    /\ orch = IdleOrch
    /\ worker = [t \in Tasks |-> NoWorker]
    /\ max_concurrency \in 1 .. MaxConcurrency
    /\ permits = max_concurrency
    /\ client = IdleClient
    /\ call = NoCall

NextFair ==
    \/ \E range \in Ranges : ProcessBatch(range[1], range[2])
    \/ \E key \in Keys : ProcessBatchByKey(key)
    \/ \E key \in Keys : \E offsets \in Offsets(key) :
          ProcessBatchByKeyWithRange(key, offsets[1], offsets[2])
    \/ \E id_list \in IdLists : ProcessIdList(id_list)
    \/ \E t \in Tasks : Acquire(t)
    \/ \E t \in Tasks : WorkerStart(t)
    \/ \E t \in Tasks : WorkerFetch(t)
    \/ \E t \in Tasks : WorkerModel(t)
    \/ BatchReturn

SpecFair ==
    /\ InitFair /\ [][NextFair]_vars
    /\ WF_vars(\E t \in Tasks : Acquire(t))
    /\ WF_vars(\E t \in Tasks : WorkerStart(t))
    /\ WF_vars(\E t \in Tasks : WorkerFetch(t))
    /\ WF_vars(\E t \in Tasks : WorkerModel(t))
    /\ WF_vars(BatchReturn)

(***************************************************************************)
(* One call of the model client followed request by request.               *)
(***************************************************************************)
batchVars == <<pics, pics_db_cache, db, rest, runs, orch, worker, max_concurrency, permits, call>>

InitClient ==
    /\ pics = <<>>
    /\ pics_db_cache = EmptyCache
    /\ db = <<>>
    /\ rest = {}
    /\ runs = 0
    /\ orch = IdleOrch
    /\ worker = [t \in Tasks |-> NoWorker]
    /\ max_concurrency = MaxConcurrency
    /\ permits = max_concurrency
    /\ client = IdleClient
    /\ call = NoCall

\* call_gemini_api hands _call_gemini_sync to a worker thread
ClientCall ==
    /\ client.pc \in {"idle", "returned"}
    /\ client' = NewCall
    /\ UNCHANGED batchVars

\* generate_content is called and answers with response; received logs the
\* responses of the call
ClientRequest(response) ==
    /\ client.pc = "loop"
    /\ client' = [AttemptStep(client, response) EXCEPT
                     !.received = Append(client.received, response)]
    /\ UNCHANGED batchVars

\* _create_new_client raises before the loop: the exception leaves the
\* worker thread and call_gemini_api returns its own 500 result
ClientCallFails ==
    /\ client.pc \in {"idle", "returned"}
    /\ client' = [NewCall EXCEPT !.pc = "returned", !.result = ThreadFailure]
    /\ UNCHANGED batchVars

NextClient ==
    \/ ClientCall
    \/ ClientCallFails
    \/ \E response \in Responses : ClientRequest(response)

SpecClient == InitClient /\ [][NextClient]_vars

\* Every request of the client terminates: generate_content answers or raises
SpecClientFair ==
    SpecClient /\ WF_vars(\E response \in Responses : ClientRequest(response))

(***************************************************************************)
(* Properties.                                                             *)
(***************************************************************************)
\* The collection the specification assigns to an id of the id universe
ShardOf(id) == IF id < ShardSize THEN "0" ELSE "1"

\* The documents stored for id in the collection of its shard
Stored(id) ==
    IF ShardOf(id) \in DOMAIN db /\ id \in DOMAIN db[ShardOf(id)]
    THEN {db[ShardOf(id)][id]}
    ELSE {}

TerminalCodes == {200, 400, 403, 404, 405, 500, 998, 999}

HasStatus(doc, codes) == "status_code" \in DOMAIN doc /\ doc["status_code"] \in codes

BatchReturned == orch.entry = "process_batch" /\ orch.pc = "returned"

\* The requested ids that are ids of Ids
RequestedIds ==
    IF orch.entry = "process_id_list" THEN Elems(orch.id_list)
    ELSE {id \in Ids : id >= orch.start_id /\ id < orch.end_id}

InFlight == {t \in Tasks : worker[t].pc \in {"start", "fetch", "model"}}

\* C1: once process_batch has returned, every id of the range that was not
\* skipped as already processed has a document in the collection of its shard,
\* and that document carries a terminal status_code.
C1_EveryIdHasTerminalOutcome ==
    BatchReturned =>
        \A id \in RequestedIds \ orch.processed_ids :
            \E doc \in Stored(id) : HasStatus(doc, TerminalCodes)

\* An outcome obeys I2: status_code = 200 iff success = true and the caption
\* is not null
I2(outcome) ==
    HasStatus(outcome, {200})
        <=> /\ Get(outcome, "success", FALSE) = TRUE
            /\ "caption" \in DOMAIN outcome
            /\ outcome["caption"].kind # "null"

\* C2: every result a worker has returned and every stored document obeys I2.
C2_StatusIffSuccessAndCaption ==
    /\ \A t \in Tasks :
          (worker[t].pc = "done" /\ "raised" \notin DOMAIN worker[t].result)
              => I2(worker[t].result)
    /\ \A id \in Ids : \A doc \in Stored(id) : I2(doc)

C4_SemaphoreBound ==
    InBatch => Cardinality(InFlight) <= max_concurrency

\* Every permit is taken while another task waits
C4_Witness ==
    /\ InBatch
    /\ Cardinality(InFlight) = max_concurrency
    /\ \E t \in Tasks : worker[t].pc = "pending"

IsPolicyRefusal(response) ==
    response.kind = "response" /\ response.text = "" /\ ProhibitedContent(response)

Requests(c) == Len(SelectSeq(c.events, LAMBDA e : e.ev = "request"))

\* C5: a response with empty text and a PROHIBITED_CONTENT or SAFETY finish
\* reason is the last response of its call, whatever attempt it answers: the
\* call has then returned success = false with status_code 999 and has issued
\* no request after the one it answers.
C5_PolicyRefusalIsTerminal ==
    \A k \in 1 .. Len(client.received) :
        IsPolicyRefusal(client.received[k]) =>
            /\ k = Len(client.received)
            /\ Requests(client) = k
            /\ client.pc = "returned"
            /\ client.result["success"] = FALSE
            /\ client.result["status_code"] = 999

\* The refusal answers the last attempt
C5_Witness ==
    /\ Len(client.received) = retry_attempts
    /\ IsPolicyRefusal(client.received[retry_attempts])
    /\ client.pc = "returned"

\* The processed predicate with the status codes of codes
Processed(doc, codes) ==
    \/ Get(doc, "success", FALSE) = TRUE
    \/ "prompt" \in DOMAIN doc
    \/ HasStatus(doc, codes)

\* The step is the pre-scan of a process_batch run
PreScanStep == runs' # runs /\ orch'.entry = "process_batch"

\* With codes as the status codes of the processed predicate: the pre-scan
\* of a run finds exactly the ids of its range whose stored document satisfies
\* the predicate, and no step of the run dispatches a worker for such an id or
\* writes to its document.
ProcessedIdsAreDone(codes) ==
    /\ PreScanStep =>
          orch'.processed_ids =
              {id \in Ids : /\ id >= orch'.start_id
                            /\ id < orch'.end_id
                            /\ \E doc \in Stored(id) : Processed(doc, codes)}
    /\ orch'.entry = "process_batch" =>
          \A id \in orch'.processed_ids :
              /\ Stored(id)' = Stored(id)
              /\ \A t \in Tasks : worker'[t].pc = "none" \/ worker'[t].id # id

\* C6 as stated: the processed predicate admits the six status codes 200, 403,
\* 404, 405, 998 and 999.
C6_ProcessedPredicateSixCodes ==
    [][ProcessedIdsAreDone({200, 403, 404, 405, 998, 999})]_vars

\* C6 amended: the processed predicate admits the five status codes 200, 403,
\* 404, 998 and 999; a document that has only status_code 405 is not found
\* processed.
C6_ProcessedPredicateFiveCodes ==
    [][ProcessedIdsAreDone({200, 403, 404, 998, 999})]_vars

\* A run has skipped an id stored with one of the five codes while it has
\* dispatched a worker for an id whose stored document has status_code 405
C6_Witness ==
    /\ orch.entry = "process_batch" /\ orch.pc = "gather"
    /\ \E id \in orch.processed_ids :
          \E doc \in Stored(id) : HasStatus(doc, {403, 404, 998, 999})
    /\ \E t \in Dispatched :
          /\ worker[t].pc = "pending"
          /\ \E doc \in Stored(worker[t].id) : HasStatus(doc, {405})

\* C7: every stored document is in the collection named after its _id
\* divided by 100000 and in no other: ids below 100000 are in "0" only, ids
\* from 100000 in "1" only.
C7_ShardRouting ==
    \A c \in DOMAIN db : \A i \in DOMAIN db[c] :
        c = ShardOf(i) /\ db[c][i]["_id"] = i

\* One run over a range across the shard boundary has written to both shards
C7_Witness ==
    /\ BatchReturned
    /\ orch.start_id < ShardSize /\ orch.end_id > ShardSize
    /\ \E doc \in Stored(ShardSize - 1) : Get(doc, "created_at", 0) = runs
    /\ \E doc \in Stored(ShardSize) : Get(doc, "created_at", 0) = runs

\* C8: a worker invocation of a batch that has ended, and was not skipped, has
\* called save_caption_result with its outcome.
C8_TerminalStateHasSaved ==
    InBatch =>
        \A t \in Tasks :
            (worker[t].pc = "done" /\ "skipped" \notin DOMAIN worker[t].result)
                => worker[t].saved

\* C9: in a batch every ended worker invocation has handed a result with a
\* success field to the orchestrator (an exception is turned into a failure
\* result, never handed on as raised); and the run returns only with every
\* dispatched id ended, counting each of them as success or failed.
C9_FailureIsContained ==
    InBatch =>
        /\ \A t \in Tasks :
              worker[t].pc = "done" =>
                  /\ "success" \in DOMAIN worker[t].result
                  /\ "raised" \notin DOMAIN worker[t].result
        /\ (orch.pc = "returned" /\ orch.ids_to_process # <<>>) =>
              /\ \A t \in Dispatched : worker[t].pc = "done"
              /\ orch.stats.success + orch.stats.failed =
                    Len(orch.ids_to_process) + orch.no_url_tasks

\* A run has returned in which one id ended with an exception and another
\* with a stored caption
C9_Witness ==
    /\ BatchReturned
    /\ \E t \in Dispatched : worker[t].result = ExceptionResult(worker[t].id)
    /\ \E t \in Dispatched :
          /\ Get(worker[t].result, "success", FALSE) = TRUE
          /\ HasStatus(worker[t].result, {200})
    /\ orch.stats.success = 1 /\ orch.stats.failed >= 1

\* C10: an id without a metadata record resolves to status 404 and no URL, by
\* get_url_by_id and by check_url_by_id_batch, and once a process_batch run
\* that did not find it processed has returned, its stored document has
\* status_code 404.
C10_MissingRecordIs404 ==
    \A id \in Ids \ DOMAIN pics :
        /\ get_url_by_id(pics, EmptyCache, id, "none").status = 404
        /\ ~Truthy(get_url_by_id(pics, EmptyCache, id, "none").url)
        /\ check_url_by_id_batch(pics, EmptyCache, {id}, [i \in Ids |-> "none"])[id].status = 404
        /\ (BatchReturned /\ id \in RequestedIds \ orch.processed_ids) =>
              \E doc \in Stored(id) : HasStatus(doc, {404})

\* No read of the metadata collection fails
NoFault == [id \in Ids |-> "none"]

\* The fields of doc among names
Restrict(doc, names) == [f \in names \cap DOMAIN doc |-> doc[f]]

\* The status_code and success stored for id once an entry point that has
\* come to locals has saved its "no URL" records
OutcomeAfterScan(locals, id) ==
    {Restrict(doc, {"status_code", "success"}) :
        doc \in find_one(SaveNoUrl(db, locals.no_url, locals.url_batch_result,
                                   runs + 1),
                         get_collection_name(id), id)}

\* An entry point may be called
Callable == orch.pc \in {"idle", "returned", "cancelled"} /\ runs < MaxRuns

\* C11: called in the same state, with no read failing, process_batch_by_key(k)
\* and process_batch(k * 100000, (k + 1) * 100000) dispatch the same ids with
\* the same urls, leave the same status_code and success stored for every id
\* of the shard, and start from the same counters and the same number of
\* "no URL" records (so that, their workers ending alike, they return the same
\* total, success, failed and skipped).
C11_ByKeyRefinesRange ==
    Callable =>
        \A key \in Keys :
            LET by_key == KeyScan(pics, pics_db_cache, db, "process_batch_by_key",
                                  key, key * ShardSize, (key + 1) * ShardSize)
                by_range == BatchScan(pics, pics_db_cache, db,
                                      key * ShardSize, (key + 1) * ShardSize, NoFault)
            IN  /\ by_key.ids_to_process = by_range.ids_to_process
                /\ by_key.url_map = by_range.url_map
                /\ \A id \in ShardIds(key) :
                      OutcomeAfterScan(by_key, id) = OutcomeAfterScan(by_range, id)
                /\ by_key.stats = by_range.stats
                /\ by_key.no_url_tasks = by_range.no_url_tasks

\* An entry point over a range or a list has returned
EntryReturned == InBatch /\ orch.pc = "returned"

\* The tasks of the run that ended in failure
FailedTasks == {t \in Dispatched : ~Get(worker[t].result, "success", FALSE)}

\* C12: in the statistics an entry point over a range or a list returns,
\* failed is the number of workers that ended in failure plus the number of
\* "no URL" records the run created, also when the run dispatched no worker.
C12_FailedCountsNoUrl ==
    EntryReturned =>
        orch.stats.failed = Cardinality(FailedTasks) + orch.no_url_tasks

\* The step is the call of an entry point over a range or a list
EntryStep == runs' # runs /\ orch'.entry # "process_single_id"

\* Every id the entry point of the step is called for satisfies the processed
\* predicate before the step
AllRequestedProcessed ==
    /\ \A id \in RequestedIds' : \E doc \in Stored(id) : ProcessedFilter(doc)
    /\ orch'.entry # "process_id_list" =>
          RestIn(orch'.start_id, orch'.end_id)
              = RestProcessedIn(rest, orch'.start_id, orch'.end_id)

\* How many ids the entry point of the state was called for
NumRequested ==
    IF orch.entry = "process_id_list" THEN Len(orch.id_list)
    ELSE orch.end_id - orch.start_id

\* C13: an entry point over a range or a list, called when every id it is
\* called for already satisfies the processed predicate, dispatches no worker
\* (so that no model request is issued), writes nothing to the store, and
\* returns at once with skipped = the number of requested ids, success = 0
\* and failed = 0.
C13_AllProcessedIsNoOp ==
    [][(EntryStep /\ AllRequestedProcessed) =>
          /\ db' = db
          /\ orch'.pc = "returned"
          /\ orch'.ids_to_process = <<>>
          /\ orch'.no_url_tasks = 0
          /\ orch'.stats = [total |-> NumRequested', success |-> 0, failed |-> 0,
                            skipped |-> NumRequested']]_vars

\* C14: process_batch(n, n) resolves no URL (check_url_by_id_batch is called
\* for no sub-range and the cache is left alone), writes nothing to the store,
\* dispatches no worker (so that no model request is issued) and returns at
\* once with total = success = failed = skipped = 0.
C14_EmptyRangeIsNoOp ==
    [][(PreScanStep /\ orch'.start_id = orch'.end_id) =>
          /\ Scanned(orch'.start_id, orch'.end_id, orch'.processed_ids) = {}
          /\ orch'.url_batch_result = <<>>
          /\ pics_db_cache' = pics_db_cache
          /\ db' = db
          /\ orch'.ids_to_process = <<>>
          /\ orch'.no_url_tasks = 0
          /\ \A t \in Tasks : worker'[t].pc = "none"
          /\ orch'.pc = "returned"
          /\ orch'.stats = [total |-> 0, success |-> 0, failed |-> 0,
                            skipped |-> 0]]_vars

\* process_batch(n, n) has returned, for an id n that has a metadata record
\* and a stored outcome that satisfies the processed predicate
C14_Witness ==
    /\ BatchReturned
    /\ orch.start_id = orch.end_id
    /\ orch.start_id \in DOMAIN pics
    /\ \E doc \in Stored(orch.start_id) : ProcessedFilter(doc)
    /\ orch.stats.total = 0

\* Every id of the range of the run has a metadata record with file_ext =
\* gif (the ids outside Ids have one), and the run found none of them processed
GifRange ==
    /\ orch.entry \in {"process_batch", "process_batch_by_key",
                       "process_batch_by_key_with_range"}
    /\ \A id \in RequestedIds : id \in DOMAIN pics /\ pics[id].file_ext = "gif"
    /\ orch.processed_ids = {}
    /\ orch.stats.skipped = 0

\* C15: once a run over a range in which every id has a metadata record with
\* file_ext = gif (and none is already processed) has returned, every id of
\* the range has a stored outcome with status_code 405: one "no URL" record
\* was created per id; and no worker was dispatched, so that no image was
\* downloaded and no model request was issued.
C15_GifRangeStored405 ==
    (EntryReturned /\ GifRange) =>
        /\ \A id \in RequestedIds : \E doc \in Stored(id) : HasStatus(doc, {405})
        /\ orch.no_url_tasks = orch.stats.total
        /\ orch.ids_to_process = <<>>
        /\ \A t \in Tasks : worker[t].pc = "none"

\* The tasks of the run whose worker committed a successful outcome
Committed == {t \in Dispatched : worker[t].saved
                                 /\ Get(worker[t].result, "success", FALSE)}

\* C16: within one run of an entry point no two worker invocations for the
\* same id are in flight together, and no two of them commit a successful
\* outcome for it; the tasks of process_id_list over a list that names an id
\* twice are included.
C16_OneInvocationPerId ==
    InBatch =>
        \A t1, t2 \in Dispatched :
            (t1 # t2 /\ worker[t1].id = worker[t2].id) =>
                /\ ~(t1 \in InFlight /\ t2 \in InFlight)
                /\ ~(t1 \in Committed /\ t2 \in Committed)

\* The entry point was cancelled while it awaited its workers
OrchCancelled == orch.pc = "cancelled"

ModelRequest(t) == worker[t].pc # "model" /\ worker'[t].pc = "model"

\* C18: in a run of an entry point (process_batch, process_batch_by_key,
\* process_batch_by_key_with_range, process_id_list) no model request is
\* issued for an id whose stored outcome has status_code 999.
C18_RefusedIdNotRequested ==
    [][\A t \in Tasks :
          (InBatch' /\ ModelRequest(t)) =>
              ~\E doc \in Stored(worker'[t].id) : HasStatus(doc, {999})]_vars

\* The step in which the worker of task t has save_caption_result upsert its
\* outcome, and the dict that was upserted
SaveStep(t) == ~worker[t].saved /\ worker'[t].saved
Upserted(t) == worker'[t].result

\* The documents of a set whose fields equal the upserted values
Holding(docs, upserted) ==
    {doc \in docs : Restrict(doc, DOMAIN upserted) = upserted}

\* C19, as the specification states it: right after save_caption_result(id,
\* outcome) has succeeded, check_existing_result(id) returns a document whose
\* fields equal the upserted values, whether the outcome is a success or a
\* failure.
C19_PointReadReturnsUpsert ==
    [][\A t \in Tasks :
          SaveStep(t) =>
              Holding(check_existing_result(db', worker'[t].id), Upserted(t)) # {}]_vars

\* C19, as the code has it: right after save_caption_result(id, outcome) has
\* succeeded, the stored document of the id holds the upserted values;
\* check_existing_result(id) returns that document when the outcome has
\* success = true, and None when it has success = false.
C19_PointReadReturnsSuccessOnly ==
    [][\A t \in Tasks :
          SaveStep(t) =>
              LET id     == worker'[t].id
                  stored == find_one(db', get_collection_name(id), id)
              IN  /\ stored # {}
                  /\ Holding(stored, Upserted(t)) = stored
                  /\ check_existing_result(db', id) =
                         IF Get(Upserted(t), "success", FALSE) THEN stored ELSE {}]_vars

\* A worker has just upserted a failure outcome: the document is stored and
\* the point read returns None
C19_Witness ==
    \E t \in Tasks :
        /\ worker[t].pc = "done" /\ worker[t].saved
        /\ worker[t].result["success"] = FALSE
        /\ "status_code" \in DOMAIN worker[t].result
        /\ Holding(Stored(worker[t].id), worker[t].result) # {}
        /\ check_existing_result(db, worker[t].id) = {}

(***************************************************************************)
(* URL resolution on its own: the metadata gateway is asked for the URL of *)
(* one id (get_url_by_id) or of a list of ids (check_url_by_id_batch), on  *)
(* stores whose records take every combination of an md5 and a file_ext.   *)
(* The answer of the last call is kept in orch.url_batch_result.           *)
(***************************************************************************)
UrlMd5s == {None, "", Md5}
UrlExts == {None, "", "jpg", "png", "gif", "GIF"}
UrlRecords == [md5 : UrlMd5s, file_ext : UrlExts]
UrlStores == UNION {[present -> UrlRecords] : present \in SUBSET Ids}

InitResolve ==
    /\ pics \in UrlStores
    /\ pics_db_cache = EmptyCache
    /\ db = <<>>
    /\ rest = {}
    /\ runs = 0
    /\ orch = IdleOrch
    /\ worker = [t \in Tasks |-> NoWorker]
    /\ max_concurrency = MaxConcurrency
    /\ permits = max_concurrency
    /\ client = IdleClient
    /\ call = NoCall

\* A call of DanbooruPics.get_url_by_id
GetUrlById(post_id) ==
    \E fault \in StoreFaults :
        /\ orch' = [orch EXCEPT !.url_batch_result =
                        post_id :> get_url_by_id(pics, pics_db_cache, post_id, fault)]
        /\ pics_db_cache' =
               [pics_db_cache EXCEPT
                   !.ids = Cached(pics, pics_db_cache, {post_id}, post_id :> fault)]
        /\ UNCHANGED <<pics, db, rest, runs, worker, max_concurrency, permits, client, call>>

\* A call of DanbooruPics.check_url_by_id_batch
CheckUrlByIdBatch(post_ids) ==
    \E faultOf \in [post_ids -> StoreFaults] :
        /\ orch' = [orch EXCEPT !.url_batch_result =
                        check_url_by_id_batch(pics, pics_db_cache, post_ids, faultOf)]
        /\ pics_db_cache' =
               [pics_db_cache EXCEPT
                   !.ids = Cached(pics, pics_db_cache, post_ids, faultOf)]
        /\ UNCHANGED <<pics, db, rest, runs, worker, max_concurrency, permits, client, call>>

NextResolve ==
    \/ \E post_id \in Ids : GetUrlById(post_id)
    \/ \E post_ids \in SUBSET Ids : post_ids # {} /\ CheckUrlByIdBatch(post_ids)

SpecResolve == InitResolve /\ [][NextResolve]_vars

\* The record has an md5 and a file_ext, both non-empty, and is not a gif
Resolvable(rec) ==
    /\ rec.md5 # None /\ rec.md5 # ""
    /\ rec.file_ext # None /\ rec.file_ext # ""
    /\ rec.file_ext # "gif"

\* https://<cdn>/original/<md5[0:2]>/<md5[2:4]>/<md5>.<file_ext>
ExpectedUrl(rec) ==
    "https://cdn.donmai.us/original/" \o SubSeq(rec.md5, 1, 2) \o "/"
        \o SubSeq(rec.md5, 3, 4) \o "/" \o rec.md5 \o "." \o rec.file_ext

\* The record of the id was read from the collection, by the call or by an
\* earlier one (a read the storage fails leaves nothing in the cache)
WasRead(id) == id \in pics_db_cache.ids

EN_BASE_TEMPLATE == "<EN_BASE_TEMPLATE>"
ZH_BASE_TEMPLATE == "<ZH_BASE_TEMPLATE>"
EN_NOTES_SECTION == "<EN_NOTES_SECTION>"
ZH_NOTES_SECTION == "<ZH_NOTES_SECTION>"

RECURSIVE ReprItems(_)
\* The items of repr(list) for a list of str
ReprItems(items) ==
    IF Len(items) = 0 THEN ""
    ELSE IF Len(items) = 1 THEN "'" \o items[1] \o "'"
    ELSE "'" \o items[1] \o "', " \o ReprItems(Tail(items))

\* f"{list}"
ReprList(items) == "[" \o ReprItems(items) \o "]"

\* The list build_prompt makes of a list argument: [] for None, [str(x)] for
\* a value that is no list
AsList(arg) ==
    IF arg.kind = "none" THEN <<>>
    ELSE IF arg.kind = "str" THEN <<arg.value>>
    ELSE arg.items

get_base_template(language) ==
    IF language = "en" THEN EN_BASE_TEMPLATE ELSE ZH_BASE_TEMPLATE

get_artist_section(artist_name, language) ==
    IF language = "en"
    THEN "- The artist of this work is " \o ReprList(artist_name) \o "."
    ELSE "- [zh] artist " \o ReprList(artist_name) \o "."

\* The sentence of _get_character_section that names the characters
CharacterSentence(character_name, language) ==
    IF language = "en"
    THEN "- The character in this artwork is " \o ReprList(character_name) \o "."
    ELSE "- [zh] character " \o ReprList(character_name) \o "."

\* CaptionPromptUtils._get_character_section
get_character_section(character_name, character_reference_info, language) ==
    IF Len(character_name) > 0 /\ character_reference_info = None
    THEN CharacterSentence(character_name, language)
    ELSE IF Truthy(character_reference_info) /\ Len(character_reference_info) > 0
    THEN character_reference_info
    ELSE ""

get_tags_section(danbooru_tags, language) ==
    IF Len(danbooru_tags) > 0
    THEN IF language = "en"
         THEN "- The Danbooru tags for this image are: " \o ReprList(danbooru_tags) \o "."
         ELSE "- [zh] tags " \o ReprList(danbooru_tags) \o "."
    ELSE ""

get_notes_section(language) ==
    IF language = "en" THEN EN_NOTES_SECTION ELSE ZH_NOTES_SECTION

\* CaptionPromptUtils.build_prompt
build_prompt(artist_arg, character_arg, tags_arg, language_arg, character_reference_info) ==
    LET artist_name    == AsList(artist_arg)
        character_name == AsList(character_arg)
        danbooru_tags  == AsList(tags_arg)
        language == IF language_arg \notin {"en", "zh"} THEN "en" ELSE language_arg
        base_template == get_base_template(language)
        artist_section ==
            IF Len(artist_name) > 0 THEN get_artist_section(artist_name, language)
            ELSE ""
        character_section ==
            IF Len(character_name) > 0 \/ Truthy(character_reference_info)
            THEN get_character_section(character_name, character_reference_info,
                                       language)
            ELSE ""
        tags_section ==
            IF Len(danbooru_tags) > 0 THEN get_tags_section(danbooru_tags, language)
            ELSE ""
        notes_section == get_notes_section(language)
    IN  base_template \o artist_section \o character_section \o tags_section
            \o notes_section

\* The arguments build_prompt is tried on
ListArgs ==
    {[kind |-> "none"], [kind |-> "list", items |-> <<>>],
     [kind |-> "list", items |-> <<"a">>],
     [kind |-> "list", items |-> <<"a", "b">>],
     [kind |-> "str", value |-> "solo"]}
Languages == {"en", "zh", "fr"}
TreeTexts == {None, "", "<tree>"}

InitPrompt ==
    /\ pics = <<>>
    /\ pics_db_cache = EmptyCache
    /\ db = <<>>
    /\ rest = {}
    /\ runs = 0
    /\ orch = IdleOrch
    /\ worker = [t \in Tasks |-> NoWorker]
    /\ max_concurrency = MaxConcurrency
    /\ permits = max_concurrency
    /\ client = IdleClient
    /\ call = NoCall

\* A call of build_prompt
BuildPrompt(artist_name, character_name, danbooru_tags, language, character_reference_info) ==
    /\ call' = [op |-> "build_prompt",
                artist_name |-> artist_name, character_name |-> character_name,
                danbooru_tags |-> danbooru_tags, language |-> language,
                character_reference_info |-> character_reference_info,
                result |-> build_prompt(artist_name, character_name, danbooru_tags,
                                        language, character_reference_info)]
    /\ UNCHANGED <<pics, pics_db_cache, db, rest, runs, orch, worker,
                   max_concurrency, permits, client>>

NextPrompt ==
    \E artist_name, character_name, danbooru_tags \in ListArgs :
        \E language \in Languages : \E character_reference_info \in TreeTexts :
            BuildPrompt(artist_name, character_name, danbooru_tags, language,
                        character_reference_info)

SpecPrompt == InitPrompt /\ [][NextPrompt]_vars

\* A prompt was built
PromptBuilt == call.op = "build_prompt"

\* The language of the prompt: English for a language that is not supported
PromptLanguage == IF call.language = "zh" THEN "zh" ELSE "en"

\* C21: the prompt build_prompt returns is the base template, then the artist
\* section iff there are artists, then the tree text if it is non-empty and
\* otherwise the character section iff there are characters, then the tags
\* section iff there are tags, then the notes section; for a tree text that
\* is null, the empty string or a text.
C21_PromptComposition ==
    PromptBuilt =>
        LET artists    == AsList(call.artist_name)
            characters == AsList(call.character_name)
            tags       == AsList(call.danbooru_tags)
            treeText   == call.character_reference_info
        IN  call.result =
                get_base_template(PromptLanguage)
                \o (IF artists # <<>>
                    THEN get_artist_section(artists, PromptLanguage) ELSE "")
                \o (IF treeText # None /\ treeText # "" THEN treeText
                    ELSE IF characters # <<>>
                    THEN CharacterSentence(characters, PromptLanguage) ELSE "")
                \o (IF tags # <<>>
                    THEN get_tags_section(tags, PromptLanguage) ELSE "")
                \o get_notes_section(PromptLanguage)

(***************************************************************************)
(* CharacterAnalyzer: the character tree.  A tag graph maps the name of    *)
(* each tag that has a record to [has_parents, children]: whether the      *)
(* "parents" list of the record is non-empty, and its "children" list as   *)
(* stored.  Tag names are single lower-case letters, ordered as Python     *)
(* orders strings.  A rendered tree is the sequence of its sections, each  *)
(* [tag, level]; the header lines and the tip that frame them are left out.*)
(***************************************************************************)
TagNames == {"a", "b", "c"}

\* The place of a tag name in the order of strings
Rank(tag) == CHOOSE k \in 1 .. Len(LowerChars) : SubSeq(LowerChars, k, k) = tag

\* The "children" lists a record may hold: the tags of a set in any order
ChildLists ==
    UNION {{list \in [1 .. n -> TagNames] :
                \A i, j \in 1 .. n : i # j => list[i] # list[j]} : n \in 0 .. 2}

TagRecords == [has_parents : BOOLEAN, children : ChildLists]
TagGraphs == UNION {[present -> TagRecords] : present \in SUBSET TagNames}

\* DanbooruTags.judge_root_tag
judge_root_tag(graph, tag_name) ==
    tag_name \in DOMAIN graph /\ ~graph[tag_name].has_parents

\* DanbooruTags.get_children_tags
get_children_tags(graph, tag_name) ==
    IF tag_name \in DOMAIN graph THEN graph[tag_name].children ELSE <<>>

RECURSIVE sorted(_)
\* sorted(tags) of a set of tag names
sorted(tags) ==
    IF tags = {} THEN <<>>
    ELSE LET first == CHOOSE t \in tags : \A o \in tags : Rank(t) <= Rank(o)
         IN  <<first>> \o sorted(tags \ {first})

\* Faulty variant of the tree: a root that is the child of a root keeps its
\* own entry
build_tree_keeping_child_roots(graph, tags) ==
    LET IsRoot(tag) == judge_root_tag(graph, tag)
        keys        == SelectSeq(sorted(tags), IsRoot)
        InTags(tag) == tag \in tags
        ChildrenOf(root_tag) == SelectSeq(get_children_tags(graph, root_tag), InTags)
    IN  [keys |-> keys,
         children |-> [i \in 1 .. Len(keys) |-> ChildrenOf(keys[i])]]

\* CharacterAnalyzer.build_tree_by_tags: keys holds the keys of the dict in
\* their order, children the list of each key
build_tree_by_tags(graph, tags) ==
    LET IsRoot(tag) == judge_root_tag(graph, tag)
        root_tags   == SelectSeq(sorted(tags), IsRoot)
        InTags(tag) == tag \in tags
        ChildrenOf(root_tag) == SelectSeq(get_children_tags(graph, root_tag), InTags)
        children_tags ==
            UNION {{ChildrenOf(root_tags[i])[k] :
                        k \in 1 .. Len(ChildrenOf(root_tags[i]))} :
                   i \in 1 .. Len(root_tags)}
        Kept(tag) == tag \notin children_tags
        keys == SelectSeq(root_tags, Kept)
    IN  [keys |-> keys,
         children |-> [i \in 1 .. Len(keys) |-> ChildrenOf(keys[i])]]

RECURSIVE TreeOutput(_, _)
\* The sections visualize_tree appends for the keys from the i-th on: the
\* section of the key, then those of its children (a child is no key of the
\* dict, so that nothing is listed under it)
TreeOutput(tree, i) ==
    IF i > Len(tree.keys) THEN <<>>
    ELSE <<[tag |-> tree.keys[i], level |-> 0]>>
         \o [k \in 1 .. Len(tree.children[i]) |->
                [tag |-> tree.children[i][k], level |-> 1]]
         \o TreeOutput(tree, i + 1)

\* CharacterAnalyzer.visualize_tree for the verified characters of char_dict:
\* None for an empty char_dict
visualize_tree(graph, char_dict) ==
    IF char_dict = {} THEN <<>>
    ELSE TreeOutput(build_tree_by_tags(graph, char_dict), 1)

InitTree ==
    /\ pics = <<>>
    /\ pics_db_cache = EmptyCache
    /\ db = <<>>
    /\ rest = {}
    /\ runs = 0
    /\ orch = IdleOrch
    /\ worker = [t \in Tasks |-> NoWorker]
    /\ max_concurrency = MaxConcurrency
    /\ permits = max_concurrency
    /\ client = IdleClient
    /\ call \in {[op |-> "none", tag_graph |-> graph] : graph \in TagGraphs}

\* A call of visualize_tree
VisualizeTree(char_dict) ==
    /\ call' = [op |-> "visualize_tree", tag_graph |-> call.tag_graph,
                char_dict |-> char_dict,
                result |-> visualize_tree(call.tag_graph, char_dict)]
    /\ UNCHANGED <<pics, pics_db_cache, db, rest, runs, orch, worker,
                   max_concurrency, permits, client>>

NextTree == \E char_dict \in SUBSET TagNames : VisualizeTree(char_dict)

SpecTree == InitTree /\ [][NextTree]_vars

\* A tree was rendered
TreeRendered == call.op = "visualize_tree"

\* The places of the sections of the roots in the rendered tree
RootLines == {i \in 1 .. Len(call.result) : call.result[i].level = 0}

\* The two sections are children listed under the same root
SameRoot(i, j) ==
    /\ call.result[i].level = 1 /\ call.result[j].level = 1
    /\ \A k \in i .. j : k \notin RootLines

\* C22: in the rendered character tree the roots appear in ascending
\* tag-name order, and the children listed under one root appear in
\* ascending tag-name order.
C22_TreeOrder ==
    TreeRendered =>
        \A i, j \in 1 .. Len(call.result) :
            (i < j /\ ((i \in RootLines /\ j \in RootLines) \/ SameRoot(i, j)))
                => Rank(call.result[i].tag) < Rank(call.result[j].tag)

\* The caption is a JSON object with the five keys of the schema
FiveKeyObject(caption) ==
    caption.kind = "object" /\ SchemaKeys \subseteq caption.keys

\* C23: every outcome a worker persists with status_code 200 carries a
\* caption that is a JSON object with the five keys regular_summary,
\* midjourney_style_summary, short_summary, creation_instructional_summary
\* and deviantart_commission_request; a model text that repairs to a
\* non-object, or to an object that misses a key, is not stored as a 200
\* success.
C23_StoredSuccessHasSchema ==
    [][\A t \in Tasks :
          (SaveStep(t) /\ HasStatus(Upserted(t), {200})) =>
              /\ "caption" \in DOMAIN Upserted(t)
              /\ FiveKeyObject(Upserted(t)["caption"])
              /\ \A doc \in find_one(db', get_collection_name(worker'[t].id),
                                     worker'[t].id) :
                    "caption" \in DOMAIN doc /\ FiveKeyObject(doc["caption"])]_vars

\* The response is a raised exception, a null response, a response without
\* a text field, or an empty text with no content-policy finish reason
IsTransientFailure(response) ==
    \/ response.kind \in {"ConnectionError", "RefreshError", "Exception",
                          "none", "no_text"}
    \/ /\ response.kind = "response" /\ response.text = ""
       /\ response.finish \cap {"PROHIBITED_CONTENT", "SAFETY"} = {}

\* The type of the error a transient failure leaves
FailureType(response) ==
    IF response.kind \in {"ConnectionError", "RefreshError"} THEN response.kind
    ELSE "Exception"

\* The message of the error a transient failure leaves
FailureMessage(response) ==
    CASE response.kind = "none" -> "response is None"
      [] response.kind = "no_text" -> "no text attribute"
      [] response.kind = "response" -> "text is empty"
      [] OTHER -> "raised by generate_content"

\* Every attempt of the call has been answered by a transient failure
AllAttemptsTransient ==
    /\ Len(client.received) = retry_attempts
    /\ \A k \in 1 .. retry_attempts : IsTransientFailure(client.received[k])

\* C24: when every one of the retry_attempts attempts of a call ends in a
\* transient failure, the call has returned (it has not raised) a result with
\* success = false and status_code 500 that carries the type, the message
\* and the stack of the error of the last attempt, after retry_attempts
\* requests.
C24_ExhaustedRetriesReturn500 ==
    AllAttemptsTransient =>
        LET last == client.received[retry_attempts]
        IN  /\ client.pc = "returned"
            /\ Requests(client) = retry_attempts
            /\ client.result["success"] = FALSE
            /\ client.result["status_code"] = 500
            /\ client.result["error_type"] = FailureType(last)
            /\ client.result["error"] = "API call failed: " \o FailureMessage(last)
            /\ client.result["error_stack"]
                   = FailureType(last) \o ": " \o FailureMessage(last)

\* The attempts failed in three different ways, the last one by a null
\* response
C24_Witness ==
    /\ AllAttemptsTransient
    /\ client.received[1].kind = "ConnectionError"
    /\ client.received[2].kind = "response"
    /\ client.received[retry_attempts].kind = "none"
    /\ client.pc = "returned"

\* The ids of Ids in the range of the run that it found neither processed
\* nor resolved with status 200
Unresolved ==
    RequestedIds \ (orch.processed_ids \cup Elems(orch.ids_to_process))

\* doc is the bulk-recorded failure outcome of a resolution with this status
IsBulkFailure(doc, status) ==
    /\ {"success", "status_code", "processing_time"} \subseteq DOMAIN doc
    /\ doc["success"] = FALSE
    /\ doc["status_code"] = status
    /\ doc["processing_time"] = 0

\* C25: a call of process_batch leaves, for every id of [start, end) that is
\* neither already processed nor resolved with status 200, a bulk-recorded
\* failure outcome with success = false, status_code = the status of the URL
\* resolution of the id and processing_time = 0, one per such id, in
\* whichever 10,000-id sub-range of the pre-scan the id lies.
C25_UnresolvedIdsRecorded ==
    [][PreScanStep =>
          /\ \A id \in Unresolved' :
                \E doc \in find_one(db', get_collection_name(id), id) :
                    \E fault \in StoreFaults :
                        IsBulkFailure(doc,
                            get_url_by_id(pics, pics_db_cache, id, fault).status)
          /\ orch'.no_url_tasks = orch'.stats.total - orch'.stats.skipped
                                  - Len(orch'.ids_to_process)]_vars

\* The fields of the outcomes save_caption_result is given for id in the
\* step: those of the result of a worker that saves, and those of the bulk
\* record of an id without URL
GivenFields(id) ==
    UNION ({DOMAIN Upserted(t) \ {"created_at"} :
               t \in {u \in Tasks : SaveStep(u) /\ worker'[u].id = id}}
           \cup {IF runs' # runs /\ id \in orch'.no_url
                 THEN DOMAIN BulkNoUrlResult(id, [status |-> 0])
                 ELSE {}})

\* C26, as the specification states it: save_caption_result changes only the
\* fields named in the given outcome; every other field of the document
\* already stored for the id is left unchanged, an existing created_at
\* included.
C26_SaveKeepsCreatedAt ==
    [][\A id \in Ids :
          \A old \in find_one(db, get_collection_name(id), id) :
              \A new \in find_one(db', get_collection_name(id), id) :
                  \A f \in (DOMAIN old) \ GivenFields(id) :
                      f \in DOMAIN new /\ new[f] = old[f]]_vars

\* C26, as the code has it: save_caption_result changes only the fields named
\* in the given outcome and created_at; every other field of the document
\* already stored for the id is left unchanged, and created_at becomes the
\* time of the save whenever the given outcome has none, whether or not the
\* stored document has one.
C26_SaveSetsGivenFieldsAndStamp ==
    [][\A id \in Ids :
          \A old \in find_one(db, get_collection_name(id), id) :
              \A new \in find_one(db', get_collection_name(id), id) :
                  /\ \A f \in (DOMAIN old) \ (GivenFields(id) \cup {"created_at"}) :
                        f \in DOMAIN new /\ new[f] = old[f]
                  /\ GivenFields(id) # {} => new["created_at"] = runs']_vars

\* The second run has saved a failure for the second id over the success the
\* first run stored: the caption of the first run is kept and created_at is
\* the time of the second save
C26_Witness ==
    \E doc \in Stored(ShardSize) :
        /\ {"caption", "success", "created_at"} \subseteq DOMAIN doc
        /\ doc["success"] = FALSE
        /\ doc["created_at"] = MaxRuns

\* The step in which the worker of task t, having got no bytes from
\* process_image_by_id, saves its outcome and returns
ImageFailureStep(t) == worker[t].pc = "fetch" /\ SaveStep(t)

\* C27: when image acquisition returns no bytes for an id, the worker ends in
\* a failure outcome whose status_code is 500, and the document persisted
\* for the id carries that outcome, with _id, status_code = 500 and
\* processing_time.
C27_ImageFailureStored500 ==
    [][\A t \in Tasks :
          ImageFailureStep(t) =>
              /\ worker'[t].pc = "done"
              /\ worker'[t].result["success"] = FALSE
              /\ HasStatus(worker'[t].result, {500})
              /\ \E doc \in find_one(db', get_collection_name(worker'[t].id),
                                     worker'[t].id) :
                    /\ {"_id", "status_code", "processing_time"} \subseteq DOMAIN doc
                    /\ doc["status_code"] = 500]_vars

(***************************************************************************)
(* ImageProcessor.process_image_by_id and the statements of                *)
(* process_single_id that lead to it, followed on their own.  The archive  *)
(* holds for an id [content, pic_url]: content is None or the bytes, and   *)
(* pic_url is None when pic_info gives none; content of a download is what *)
(* download_image has after its retries, None or the bytes.                *)
(***************************************************************************)
\* ImageProcessor.mime_type_map
mime_type_map ==
    ("png" :> "image/png") @@ ("jpg" :> "image/jpeg") @@ ("jpeg" :> "image/jpeg")
    @@ ("webp" :> "image/webp") @@ ("gif" :> "image/gif")

\* self.mime_type_map.get(file_extension, "image/jpeg")
MimeTypeOf(file_extension) ==
    IF file_extension \in DOMAIN mime_type_map THEN mime_type_map[file_extension]
    ELSE "image/jpeg"

\* os.path.splitext(url)[1][1:].lower()
FileExtensionOf(url) ==
    LET slashes == {i \in 1 .. Len(url) : SubSeq(url, i, i) = "/"}
        dots    == {i \in 1 .. Len(url) :
                       /\ SubSeq(url, i, i) = "."
                       /\ \A j \in slashes : j < i}
    IN  IF dots = {} THEN ""
        ELSE LET last == CHOOSE i \in dots : \A j \in dots : j <= i
             IN  Lower(SubSeq(url, last + 1, Len(url)))

\* (None, None, None)
NoImage == [image_bytes |-> None, mime_type |-> None, file_extension |-> None]

\* ImageProcessor.get_image_from_hfpics
get_image_from_hfpics(archive) ==
    IF ~Truthy(archive.content) THEN NoImage
    ELSE IF Truthy(archive.pic_url)
    THEN [image_bytes |-> archive.content,
          mime_type |-> MimeTypeOf(FileExtensionOf(archive.pic_url)),
          file_extension |-> FileExtensionOf(archive.pic_url)]
    ELSE [image_bytes |-> archive.content, mime_type |-> "image/jpeg",
          file_extension |-> "jpg"]

\* ImageProcessor.download_image
download_image(image_url, content) ==
    [image_bytes |-> content,
     mime_type |-> MimeTypeOf(FileExtensionOf(image_url)),
     file_extension |-> FileExtensionOf(image_url)]

ImageSuccess(image, source) ==
    ("success" :> TRUE) @@ ("image_bytes" :> image.image_bytes)
    @@ ("mime_type" :> image.mime_type)
    @@ ("file_extension" :> image.file_extension) @@ ("source" :> source)

\* ImageProcessor.process_image_by_id: the sources it has asked, in order,
\* and the result it returns
process_image_by_id(use_hfpics_first, dan_id, custom_url, archive, content) ==
    LET from_archive == use_hfpics_first /\ ~Truthy(custom_url)
        hf      == get_image_from_hfpics(archive)
        asked   == IF from_archive THEN <<"hfpics">> ELSE <<>>
        fetched == download_image(custom_url, content)
    IN  IF from_archive /\ Truthy(hf.image_bytes)
        THEN [sources |-> asked, result |-> ImageSuccess(hf, "hfpics")]
        ELSE IF ~Truthy(custom_url)
        THEN [sources |-> asked,
              result |-> ("success" :> FALSE) @@ ("need_url" :> TRUE)
                         @@ ("message" :> "URL needed")]
        ELSE IF Truthy(fetched.image_bytes)
        THEN [sources |-> Append(asked, "url"),
              result |-> ImageSuccess(fetched, "url")
                         @@ ("image_url" :> custom_url)]
        ELSE [sources |-> Append(asked, "url"),
              result |-> ("success" :> FALSE) @@ ("error" :> "download failed")
                         @@ ("image_url" :> custom_url)]

\* process_single_id from "url = custom_url" to the return of
\* process_image_by_id: how far it got, the sources asked and the result
AcquireImage(use_hfpics_first, pictures, cache, dan_id, custom_url, fault, archive, content) ==
    LET resolved == IF Truthy(custom_url) THEN [url |-> custom_url, status |-> 200]
                    ELSE get_url_by_id(pictures, cache, dan_id, fault)
    IN  IF resolved.status # 200
        THEN [stage |-> "no_url", sources |-> <<>>,
              result |-> NoUrlResult(dan_id, resolved.status)]
        ELSE IF IsGif(resolved.url)
        THEN [stage |-> "gif", sources |-> <<>>,
              result |-> GifResult(dan_id, resolved.url)]
        ELSE LET image == process_image_by_id(use_hfpics_first, dan_id,
                                              resolved.url, archive, content)
             IN  [stage |-> "image", sources |-> image.sources,
                  result |-> image.result]

\* The urls the calls are given as custom_url
ImageUrls == {None, "", build_url(Md5, "jpg"), "https://example.org/picture.png"}

\* What the archive holds for an id
Archives == [content : {None, "bytes"},
             pic_url : {None, "https://example.org/archive/picture.webp"}]

\* What a download ends with
Contents == {None, "bytes"}

InitImage ==
    /\ pics \in PicStores
    /\ pics_db_cache = EmptyCache
    /\ db = <<>>
    /\ rest = {}
    /\ runs = 0
    /\ orch = IdleOrch
    /\ worker = [t \in Tasks |-> NoWorker]
    /\ max_concurrency = MaxConcurrency
    /\ permits = max_concurrency
    /\ client = IdleClient
    /\ call \in {[op |-> "none", use_hfpics_first |-> use] : use \in BOOLEAN}

\* A call of process_image_by_id, the one call of the behaviour
ProcessImageById(dan_id, custom_url, archive, content) ==
    /\ call.op = "none"
    /\ LET image == process_image_by_id(call.use_hfpics_first, dan_id, custom_url,
                                        archive, content)
       IN  call' = [op |-> "process_image_by_id",
                    use_hfpics_first |-> call.use_hfpics_first,
                    dan_id |-> dan_id, custom_url |-> custom_url,
                    archive |-> archive, stage |-> "image",
                    sources |-> image.sources, result |-> image.result]
    /\ UNCHANGED <<pics, pics_db_cache, db, rest, runs, orch, worker,
                   max_concurrency, permits, client>>

\* The acquisition of the image by a worker: custom_url is the url of
\* url_map for a worker the orchestrator dispatched, None or the caller's url
\* in a direct call of process_single_id
ProcessSingleIdImage(dan_id, custom_url, fault, archive, content) ==
    /\ call.op = "none"
    /\ LET got == AcquireImage(call.use_hfpics_first, pics, pics_db_cache, dan_id,
                               custom_url, fault, archive, content)
       IN  call' = [op |-> "process_single_id",
                    use_hfpics_first |-> call.use_hfpics_first,
                    dan_id |-> dan_id, custom_url |-> custom_url,
                    archive |-> archive, stage |-> got.stage,
                    sources |-> got.sources, result |-> got.result]
    /\ UNCHANGED <<pics, pics_db_cache, db, rest, runs, orch, worker,
                   max_concurrency, permits, client>>

NextImage ==
    \/ \E dan_id \in Ids : \E custom_url \in ImageUrls :
          \E archive \in Archives : \E content \in Contents :
              ProcessImageById(dan_id, custom_url, archive, content)
    \/ \E dan_id \in Ids : \E custom_url \in ImageUrls : \E fault \in StoreFaults :
          \E archive \in Archives : \E content \in Contents :
              ProcessSingleIdImage(dan_id, custom_url, fault, archive, content)

SpecImage == InitImage /\ [][NextImage]_vars

\* A worker that was handed a url by the orchestrator has got the result of
\* process_image_by_id, the archive-first preference being set
DispatchedArchiveFirst ==
    /\ call.op = "process_single_id"
    /\ call.stage = "image"
    /\ Truthy(call.custom_url)
    /\ call.use_hfpics_first

\* C28: with the archive-first preference (use_hfpics_first) set, a worker
\* the batch orchestrator dispatched asks the archive for the id before any
\* download from the CDN, and downloads from the CDN only if the archive
\* returned no bytes.
C28_ArchiveBeforeCdn ==
    DispatchedArchiveFirst =>
        /\ call.sources # <<>>
        /\ call.sources[1] = "hfpics"
        /\ "url" \in Elems(call.sources) =>
              ~Truthy(get_image_from_hfpics(call.archive).image_bytes)

\* The response carries a text that is not empty
HasText(response) == response.kind = "response" /\ response.text # ""

\* C29: a response with non-empty text is the last response of its call,
\* whatever attempt it answers: the call has then returned, with status_code
\* 200, success = true and the parsed caption when json_repair.loads parses
\* the text, and with status_code 400, success = false, the raw text and the
\* parse error when it raises; no request was issued after the one the
\* response answers.
C29_TextEndsTheLoop ==
    \A k \in 1 .. Len(client.received) :
        HasText(client.received[k]) =>
            LET text   == client.received[k].text
                parsed == json_repair_loads(text)
            IN  /\ k = Len(client.received)
                /\ Requests(client) = k
                /\ client.pc = "returned"
                /\ IF ~parsed.raised
                   THEN /\ client.result["success"] = TRUE
                        /\ client.result["status_code"] = 200
                        /\ client.result["caption"] = parsed.value
                   ELSE /\ client.result["success"] = FALSE
                        /\ client.result["status_code"] = 400
                        /\ client.result["raw_response"] = text
                        /\ "parse_error" \in DOMAIN client.result

\* A text that does not parse answered the second attempt, after a transient
\* failure of the first
C29_Witness ==
    /\ Len(client.received) = 2
    /\ ~HasText(client.received[1])
    /\ HasText(client.received[2])
    /\ json_repair_loads(client.received[2].text).raised
    /\ client.pc = "returned"

\* The response is null, has no text field, or has an empty text with no
\* PROHIBITED_CONTENT or SAFETY finish reason
IsSoftFailure(response) ==
    \/ response.kind \in {"none", "no_text"}
    \/ /\ response.kind = "response" /\ response.text = ""
       /\ ~ProhibitedContent(response)

\* C30: a null response, a response without a text field and an empty text
\* with no PROHIBITED_CONTENT or SAFETY finish reason are transient: when such
\* a response answers an attempt that is not the last one, the call has slept
\* and is in its loop, about to issue the next request; when it answers the
\* last attempt the call returns status_code 500; in no case is the result
\* of the call a 200, 400 or 999 result.
C30_SoftFailuresAreTransient ==
    LET n == Len(client.received)
    IN  (n > 0 /\ IsSoftFailure(client.received[n])) =>
            /\ Requests(client) = n
            /\ client.attempt = n
            /\ client.events[Len(client.events)].ev = "sleep"
            /\ IF n < retry_attempts
               THEN client.pc = "loop" /\ client.result = <<>>
               ELSE /\ client.pc = "returned"
                    /\ client.result["success"] = FALSE
                    /\ client.result["status_code"] = 500

\* The three kinds of response answered the three attempts of a call
C30_Witness ==
    /\ Len(client.received) = retry_attempts
    /\ client.received[1].kind = "none"
    /\ client.received[2].kind = "no_text"
    /\ client.received[retry_attempts].kind = "response"
    /\ IsSoftFailure(client.received[retry_attempts])
    /\ client.pc = "returned"

\* The sleeps of the call, in order
Sleeps(c) == SelectSeq(c.events, LAMBDA e : e.ev = "sleep")

\* C31: the k-th sleep of a call of the model client (k = 1, 2, ...), which
\* comes right after the request of the failed attempt number k - 1, lasts
\* retry_delay * 2^(k - 1) seconds; with the defaults (retry_delay = 5,
\* retry_attempts = 3) the waits between attempts 1 and 2 and between
\* attempts 2 and 3 are 5 and 10 seconds.
C31_ExponentialBackoff ==
    LET sleeps == Sleeps(client)
    IN  /\ \A k \in 1 .. Len(sleeps) :
              sleeps[k].seconds = retry_delay * (2 ^ (k - 1))
        /\ \A i \in 1 .. Len(client.events) :
              client.events[i].ev = "sleep" =>
                  i > 1 /\ client.events[i - 1].ev = "request"
        /\ Len(sleeps) >= 1 => sleeps[1].seconds = 5
        /\ Len(sleeps) >= 2 => sleeps[2].seconds = 10

\* Two attempts failed and the third one was answered by a text: the call
\* has waited twice between its three requests
C31_Witness ==
    /\ Requests(client) = retry_attempts
    /\ Len(Sleeps(client)) = 2
    /\ HasText(client.received[retry_attempts])
    /\ client.pc = "returned"

\* The last call resolved id by a read of its record that the storage
\* failed: the record exists and is well formed, yet nothing was cached
ReadFailed(id) ==
    /\ id \in DOMAIN orch.url_batch_result
    /\ id \in DOMAIN pics
    /\ ~DanbooruPicDoc(pics[id]).raised
    /\ id \notin pics_db_cache.ids

\* C32: a storage error raised while the URL of an id is resolved, by
\* get_url_by_id or by check_url_by_id_batch, gives the id the resolution
\* status 500 (not 404 or 405) and no URL.
C32_StorageErrorIs500 ==
    \A id \in Ids :
        ReadFailed(id) =>
            /\ orch.url_batch_result[id].status = 500
            /\ ~Truthy(orch.url_batch_result[id].url)

\* The step of a worker that was invoked without skip_existing_check for an
\* id whose stored document has success = true
SkipCase(t) ==
    /\ worker[t].pc = "start"
    /\ ~worker[t].skip_existing_check
    /\ \E doc \in Stored(worker[t].id) : Get(doc, "success", FALSE) = TRUE
    /\ worker'[t].pc # "start"

\* C33: a worker invoked without skip_existing_check for an id whose stored
\* outcome has success = true returns a skipped result with status 200; it
\* resolves no URL, acquires no image, calls no model and writes nothing to
\* the caption store, whose document for the id is left unchanged.
C33_StoredSuccessIsSkipped ==
    [][\A t \in Tasks :
          SkipCase(t) =>
              /\ worker'[t].pc = "done"
              /\ worker'[t].result["success"] = TRUE
              /\ Get(worker'[t].result, "skipped", FALSE) = TRUE
              /\ HasStatus(worker'[t].result, {200})
              /\ ~worker'[t].saved
              /\ db' = db
              /\ pics_db_cache' = pics_db_cache
              /\ client' = client]_vars

\* The run in progress is one of an entry point by key; its shard
ByKeyEntry ==
    orch.entry \in {"process_batch_by_key", "process_batch_by_key_with_range"}

RunKey == orch.start_id \div ShardSize

\* The status the record of an id calls for, by that record alone
StatusByOwnRecord(id) ==
    IF id \notin DOMAIN pics THEN 404
    ELSE IF Resolvable(pics[id]) THEN 200
    ELSE 405

\* C34: check_urls_by_key(key) reports for every id of the shard the status
\* its own record calls for: 200 if the URL can be built, 405 if the record
\* exists but md5 or file_ext is missing or file_ext is gif, 404 if there is
\* no record; a malformed record changes the status of no other id (the ids
\* outside Ids, which all have a gif record, are reported 405).
C34_StatusByOwnRecord ==
    ByKeyEntry =>
        /\ \A id \in ShardIds(RunKey) :
              /\ id \in DOMAIN orch.url_batch_result
              /\ orch.url_batch_result[id].status = StatusByOwnRecord(id)
        /\ RunKey \in pics_db_cache.rest

\* C35: on return from an entry point over a range, a shard or a list the
\* counters satisfy total = success + failed + skipped.
C35_CountersAddUp ==
    EntryReturned =>
        orch.stats.total =
            orch.stats.success + orch.stats.failed + orch.stats.skipped

\* C36: every worker invocation releases its permit on every exit path, so
\* the permits held by workers in flight and the free ones add up to
\* max_concurrency in every state of a batch, and all of them are free once
\* the entry point has returned.
C36_PermitsConserved ==
    InBatch =>
        /\ Cardinality(InFlight) + permits = max_concurrency
        /\ orch.pc = "returned" => permits = max_concurrency

\* A run has returned whose two workers left by different paths: one stored
\* a caption, the other ended in the exception handler
C36_Witness ==
    /\ EntryReturned
    /\ permits = max_concurrency
    /\ \E t, u \in Dispatched :
          /\ HasStatus(worker[t].result, {200})
          /\ worker[u].result = ExceptionResult(worker[u].id)

\* The client's call has returned
ClientReturned == client.pc = "returned"

\* C37 as stated: one call of the model client issues at least one and at
\* most retry_attempts requests and then returns a result whose status_code
\* is 200, 400, 500 or 999; a call in progress returns.
C37_OneToNRequests ==
    /\ [](Requests(client) <= retry_attempts)
    /\ [](ClientReturned =>
            /\ Requests(client) >= 1
            /\ HasStatus(client.result, {200, 400, 500, 999}))
    /\ (client.pc = "loop" ~> ClientReturned)

\* C37: one call of the model client issues at most retry_attempts requests,
\* and none only when the client instance cannot be created, which
\* call_gemini_api reports with its own 500 result; it then returns a result
\* whose status_code is 200, 400, 500 or 999, and a call in progress returns
\* provided every request terminates.
C37_AtMostNRequests ==
    /\ [](Requests(client) <= retry_attempts)
    /\ [](ClientReturned =>
            /\ Requests(client) = 0 <=> client.result = ThreadFailure
            /\ HasStatus(client.result, {200, 400, 500, 999}))
    /\ (client.pc = "loop" ~> ClientReturned)

\* A call has returned a parse failure from the text of its last allowed
\* request
C37_Witness ==
    /\ ClientReturned
    /\ Requests(client) = retry_attempts
    /\ HasStatus(client.result, {400})

\* C38: a batch entry point that dispatched its workers eventually
\* returns, and every dispatched worker eventually acquires the semaphore and
\* completes, for every max_concurrency >= 1 and every number of dispatched
\* ids.
C38_BatchReturns ==
    /\ (orch.pc = "gather" ~> orch.pc = "returned")
    /\ \A t \in Tasks : (worker[t].pc = "pending" ~> worker[t].pc = "done")

\* A run with a single permit has returned after every one of its workers,
\* more than one, went through the semaphore
C38_Witness ==
    /\ EntryReturned
    /\ max_concurrency = 1
    /\ Len(orch.ids_to_process) > max_concurrency
    /\ \A t \in Dispatched : worker[t].pc = "done"
    /\ permits = max_concurrency

\* The position in events of the k-th request of the call
RequestAt(c, k) ==
    CHOOSE i \in 1 .. Len(c.events) :
        /\ c.events[i].ev = "request"
        /\ Len(SelectSeq(SubSeq(c.events, 1, i), LAMBDA e : e.ev = "request")) = k

\* C39: every transient failure of an attempt is followed by a backoff sleep
\* before anything else happens, the failure of the final attempt included: a
\* call that exhausts its retry_attempts = n attempts has slept n times, for
\* retry_delay * 2^0 ... retry_delay * 2^(n-1) seconds, and its last sleep
\* comes after its last request and before the 500 result is returned.
C39_SleepAfterEveryFailure ==
    /\ \A k \in 1 .. Len(client.received) :
          IsTransientFailure(client.received[k]) =>
              LET i == RequestAt(client, k)
              IN  /\ i < Len(client.events)
                  /\ client.events[i + 1] =
                        [ev |-> "sleep", seconds |-> retry_delay * (2 ^ (k - 1))]
    /\ AllAttemptsTransient =>
          /\ client.pc = "returned"
          /\ HasStatus(client.result, {500})
          /\ Len(Sleeps(client)) = retry_attempts
          /\ \A k \in 1 .. retry_attempts :
                Sleeps(client)[k].seconds = retry_delay * (2 ^ (k - 1))
          /\ client.events[Len(client.events)].ev = "sleep"
          /\ RequestAt(client, retry_attempts) = Len(client.events) - 1

\* A call has returned 500 after three failed requests and three sleeps, the
\* last one of 20 seconds
C39_Witness ==
    /\ AllAttemptsTransient
    /\ HasStatus(client.result, {500})
    /\ Len(client.events) = 2 * retry_attempts
    /\ client.events[Len(client.events)] = [ev |-> "sleep", seconds |-> 20]

\* The verified characters that judge_root_tag takes for roots
VerifiedRoots ==
    {tag \in call.char_dict : judge_root_tag(call.tag_graph, tag)}

\* child is in the children list the tag graph stores for parent
GraphChild(child, parent) ==
    \E k \in 1 .. Len(get_children_tags(call.tag_graph, parent)) :
        get_children_tags(call.tag_graph, parent)[k] = child

\* The sections rendered directly under the i-th section of the output
Under(output, i) ==
    {j \in (i + 1) .. Len(output) :
        /\ output[j].level = output[i].level + 1
        /\ \A m \in (i + 1) .. j : output[m].level > output[i].level}

\* The places where child is rendered directly under parent
RenderedUnder(output, parent, child) ==
    {place \in (1 .. Len(output)) \X (1 .. Len(output)) :
        /\ output[place[1]].tag = parent
        /\ place[2] \in Under(output, place[1])
        /\ output[place[2]].tag = child}

\* What is rendered is a root or a graph child of a verified root, and a
\* verified character that is neither is rendered nowhere
RenderedOnlyUnderRoots ==
    LET output == call.result
    IN  /\ \A i \in 1 .. Len(output) :
              \/ output[i].tag \in VerifiedRoots
              \/ \E root \in VerifiedRoots : GraphChild(output[i].tag, root)
        /\ \A tag \in call.char_dict :
              (/\ tag \notin VerifiedRoots
               /\ \A root \in VerifiedRoots : ~GraphChild(tag, root))
                  => \A i \in 1 .. Len(output) : output[i].tag # tag

\* C40 as stated: a verified character is rendered only if it is a root of
\* the tag graph or a graph child of a verified root (one that is no root and
\* has no verified root for parent, or is missing from the graph, is omitted),
\* and a character that is a child of two verified roots is rendered once
\* under each of them.
C40_RenderedUnderEachRoot ==
    call.op = "visualize_tree" =>
        /\ RenderedOnlyUnderRoots
        /\ \A child \in call.char_dict : \A r1, r2 \in VerifiedRoots :
              (r1 # r2 /\ GraphChild(child, r1) /\ GraphChild(child, r2)) =>
                  /\ Cardinality(RenderedUnder(call.result, r1, child)) = 1
                  /\ Cardinality(RenderedUnder(call.result, r2, child)) = 1

\* The verified root is in the children list of a verified root: it loses
\* its own entry of the tree
ListedAsChild(root) == \E other \in VerifiedRoots : GraphChild(root, other)

\* C40: a verified character is rendered only if it is a root of the tag
\* graph or a graph child of a verified root, and the child of a verified
\* root is rendered once under that root unless the root is itself in the
\* children list of a verified root: such a root has no entry of its own and
\* nothing is rendered under it.  So a child of two verified roots is
\* rendered once under each of them that no verified root lists as a child.
C40_RenderedUnderKeptRoots ==
    call.op = "visualize_tree" =>
        /\ RenderedOnlyUnderRoots
        /\ \A child \in call.char_dict : \A root \in VerifiedRoots :
              GraphChild(child, root) =>
                  IF ListedAsChild(root)
                  THEN RenderedUnder(call.result, root, child) = {}
                  ELSE Cardinality(RenderedUnder(call.result, root, child)) = 1

\* A character that is no root is rendered under each of the two verified
\* roots that list it
C40_Witness ==
    /\ call.op = "visualize_tree"
    /\ \E child \in call.char_dict \ VerifiedRoots : \E r1, r2 \in VerifiedRoots :
          /\ r1 # r2
          /\ GraphChild(child, r1) /\ GraphChild(child, r2)
          /\ Cardinality(RenderedUnder(call.result, r1, child)) = 1
          /\ Cardinality(RenderedUnder(call.result, r2, child)) = 1

====
